---- MODULE Spec2Model ----
(***************************************************************************)
(* Model of transcripts-connector: the Orchestrator pipeline               *)
(* (src/src/orchestrator.py), the AI fallback matcher (src/src/ai_mapper.py)*)
(* and the GoogleApi helpers it calls (src/src/google_api.py).             *)
(*                                                                         *)
(* Strings are sequences of one-character strings, so that lower(),        *)
(* strip(), startswith(), the `in` substring test, int() and the f-string  *)
(* titles are computed the way Python computes them.  Times are whole      *)
(* minutes.                                                                *)
(***************************************************************************)
EXTENDS Integers, Sequences, FiniteSets, TLC

(***************************************************************************)
(* Bounds of the model.                                                    *)
(***************************************************************************)
\* longest list of calendar events the calendar returns in one run
MaxEvents == 2
\* longest list of recordings the connector returns in one run
MaxMeetings == 2

(***************************************************************************)
(* Python values and string helpers.                                       *)
(***************************************************************************)
\* Python None / a missing dict key
None == "None"
\* hasattr(obj, name) is False
NoAttr == "NoAttr"
\* event['start']: a 'dateTime' that parses to minute t,
StartAt(t) == [dateTime |-> "iso", minute |-> t]
\* no 'dateTime' key (an all-day event),
NoStart == [dateTime |-> "missing", minute |-> 0]
\* or a 'dateTime' string datetime.fromisoformat cannot parse
BadStart == [dateTime |-> "unparsable", minute |-> 0]

LowerChar(c) ==
    CASE c = "A" -> "a" [] c = "B" -> "b" [] c = "C" -> "c" [] c = "D" -> "d"
      [] c = "E" -> "e" [] c = "F" -> "f" [] c = "G" -> "g" [] c = "H" -> "h"
      [] c = "I" -> "i" [] c = "J" -> "j" [] c = "K" -> "k" [] c = "L" -> "l"
      [] c = "M" -> "m" [] c = "N" -> "n" [] c = "O" -> "o" [] c = "P" -> "p"
      [] c = "Q" -> "q" [] c = "R" -> "r" [] c = "S" -> "s" [] c = "T" -> "t"
      [] c = "U" -> "u" [] c = "V" -> "v" [] c = "W" -> "w" [] c = "X" -> "x"
      [] c = "Y" -> "y" [] c = "Z" -> "z" [] OTHER -> c

\* str.lower()
Lower(s) == [i \in 1..Len(s) |-> LowerChar(s[i])]

\* `sub in s` on strings
Contains(sub, s) ==
    \E i \in 0..(Len(s) - Len(sub)) : SubSeq(s, i + 1, i + Len(sub)) = sub

\* s.startswith(p)
StartsWith(s, p) == Len(p) <= Len(s) /\ SubSeq(s, 1, Len(p)) = p

WhiteSpace == {" ", "\n", "\t"}

\* str.strip()
RECURSIVE LStrip(_)
LStrip(s) == IF s # <<>> /\ s[1] \in WhiteSpace THEN LStrip(Tail(s)) ELSE s
RECURSIVE RStrip(_)
RStrip(s) ==
    IF s # <<>> /\ s[Len(s)] \in WhiteSpace THEN RStrip(SubSeq(s, 1, Len(s) - 1)) ELSE s
Strip(s) == RStrip(LStrip(s))

Digits == {"0","1","2","3","4","5","6","7","8","9"}

DigitVal(c) ==
    CASE c = "0" -> 0 [] c = "1" -> 1 [] c = "2" -> 2 [] c = "3" -> 3 [] c = "4" -> 4
      [] c = "5" -> 5 [] c = "6" -> 6 [] c = "7" -> 7 [] c = "8" -> 8 [] c = "9" -> 9

RECURSIVE DecimalValue(_)
DecimalValue(ds) ==
    IF ds = <<>> THEN 0
    ELSE 10 * DecimalValue(SubSeq(ds, 1, Len(ds) - 1)) + DigitVal(ds[Len(ds)])

IsDigitChar(c) == c \in Digits

\* int(s): [ok |-> FALSE] stands for ValueError.  Python accepts surrounding
\* whitespace, one sign, and digits with single underscores between digits.
PyInt(s0) ==
    LET s      == Strip(s0)
        signed == s # <<>> /\ s[1] \in {"+", "-"}
        body   == IF signed THEN Tail(s) ELSE s
        wellFormed ==
            /\ body # <<>>
            /\ \A i \in 1..Len(body) :
                  \/ body[i] \in Digits
                  \/ /\ body[i] = "_"
                     /\ 1 < i /\ i < Len(body)
                     /\ body[i - 1] \in Digits /\ body[i + 1] \in Digits
        magnitude == DecimalValue(SelectSeq(body, IsDigitChar))
    IN  IF wellFormed
        THEN [ok |-> TRUE, val |-> IF signed /\ s[1] = "-" THEN 0 - magnitude ELSE magnitude]
        ELSE [ok |-> FALSE, val |-> 0]

(***************************************************************************)
(* String literals of the program and of the modelled inputs.              *)
(***************************************************************************)
sSync      == <<"S","y","n","c">>
sSyncLower == <<"s","y","n","c">>
sCatchUp   == <<"C","a","t","c","h","-","U","p">>
sPlan      == <<"P","l","a","n">>
sRec       == <<"R","e","c">>

\* 'Transcript for'
TRANSCRIPT_PREFIX == <<"T","r","a","n","s","c","r","i","p","t"," ","f","o","r">>
\* 'AI Notes for'
NOTES_PREFIX == <<"A","I"," ","N","o","t","e","s"," ","f","o","r">>

\* os.environ.get("IGNORE_KEYWORDS", "1:1,1-1,catch-up").split(',')
IGNORE_KEYWORDS ==
    << <<"1",":","1">>, <<"1","-","1">>, <<"c","a","t","c","h","-","u","p">> >>

\* f"{event_summary} - Transcript"
TranscriptDocTitle(event_summary) ==
    event_summary \o <<" ","-"," ","T","r","a","n","s","c","r","i","p","t">>

\* f"Notes for {meeting.name}"
NotesDocTitle(meeting_name) ==
    <<"N","o","t","e","s"," ","f","o","r"," ">> \o meeting_name

(***************************************************************************)
(* Inputs: the calendar's events and the connector's recordings.           *)
(*   event   = the dict items of GoogleApi.get_concluded_events            *)
(*   meeting = providers.base.Meeting, with                                *)
(*     conference_id    the attribute _match_by_conference_id reads        *)
(*                      (NoAttr: the dataclass declares no such field),    *)
(*     payload_conf     the conference ID in original_data,                *)
(*     raw_content      whether original_data['raw_content'] is non-empty. *)
(***************************************************************************)
Event(id, summary, start, conf, attachments) ==
    [id |-> id, summary |-> summary, start |-> start, conferenceId |-> conf,
     attachments |-> attachments]

Meeting(id, name, start_time, conference_id, payload_conf, raw_content) ==
    [id |-> id, name |-> name, start_time |-> start_time,
     conference_id |-> conference_id, payload_conf |-> payload_conf,
     raw_content |-> raw_content]

EventPool ==
    { Event("ev1", sSync, StartAt(0), "c1", <<>>),
      Event("ev2", sSync, StartAt(0), None, << TRANSCRIPT_PREFIX \o <<" ">> \o sSync >>),
      Event("ev3", sCatchUp, BadStart, None, <<>>),
      Event("ev4", sPlan, NoStart, "c1", << NOTES_PREFIX \o <<" ">> \o sPlan >>) }

MeetingPool ==
    { Meeting("mt1", sSyncLower, 4, NoAttr, None, TRUE),
      Meeting("mt2", sSync, 5, None, None, TRUE),
      Meeting("mt3", sSync, 0, "c1", "c1", FALSE),
      Meeting("mt4", sRec, 0, NoAttr, "c1", TRUE) }

\* the lists without repeated elements, of length at most n, over the set S
InjectiveSeqs(S, n) ==
    { s \in UNION { [1..k -> S] : k \in 0..n } :
        \A i, j \in 1..Len(s) : i # j => s[i] # s[j] }

EventLists   == InjectiveSeqs(EventPool, MaxEvents)
MeetingLists == InjectiveSeqs(MeetingPool, MaxMeetings)

Min(S) == CHOOSE x \in S : \A y \in S : x <= y

Range(seq) == { seq[i] : i \in 1..Len(seq) }

\* a slip: the matched element is not removed
RemoveFirstKeepsAll(s, x) == s

\* list.remove(x): drops the first element equal to x
RemoveFirst(s, x) ==
    LET i == Min({ k \in 1..Len(s) : s[k] = x })
    IN  SubSeq(s, 1, i - 1) \o SubSeq(s, i + 1, Len(s))

\* a slip: the stage hands on every recording it was given
NotMatchedKeepsAll(meetings_, meeting_ids_matched) == meetings_

\* [m for m in meetings if m.id not in meeting_ids_matched]
NotMatched(meetings_, meeting_ids_matched) ==
    SelectSeq(meetings_, LAMBDA m : m.id \notin meeting_ids_matched)

(***************************************************************************)
(* Stage 1: Orchestrator._match_by_conference_id                           *)
(***************************************************************************)
\* the meetings the inner loop does not `continue` past and whose ID matches
ConferenceCandidates(conference_id, meetings_, meeting_ids_matched) ==
    { j \in 1..Len(meetings_) :
        /\ meetings_[j].id \notin meeting_ids_matched
        /\ meetings_[j].conference_id # NoAttr
        /\ meetings_[j].conference_id # None
        /\ meetings_[j].conference_id = conference_id }

RECURSIVE ConferenceLoop(_, _, _, _, _, _)
ConferenceLoop(events_, meetings_, i, matched_pairs, unmatched, meeting_ids_matched) ==
    IF i > Len(events_)
    THEN [matched_pairs      |-> matched_pairs,
          unmatched_events   |-> unmatched,
          unmatched_meetings |-> NotMatched(meetings_, meeting_ids_matched)]
    ELSE LET event == events_[i]
             cands == ConferenceCandidates(event.conferenceId, meetings_, meeting_ids_matched)
         IN  IF event.conferenceId = None \/ cands = {}
             THEN ConferenceLoop(events_, meetings_, i + 1, matched_pairs,
                                 Append(unmatched, event), meeting_ids_matched)
             ELSE LET meeting == meetings_[Min(cands)]
                  IN  ConferenceLoop(events_, meetings_, i + 1,
                                     Append(matched_pairs, <<event, meeting>>),
                                     unmatched, meeting_ids_matched \cup {meeting.id})

MatchByConferenceId(events_, meetings_) ==
    ConferenceLoop(events_, meetings_, 1, <<>>, <<>>, {})

(***************************************************************************)
(* Stage 2: Orchestrator._match_by_time_and_title                          *)
(***************************************************************************)
\* timedelta(minutes=5)
TIME_MATCH_MINUTES == 5

Abs(x) == IF x < 0 THEN 0 - x ELSE x

\* a slip: the `meeting.id in meeting_ids_matched` test is left out
TimeTitleCandidatesRematch(event, meetings_, meeting_ids_matched) ==
    { j \in 1..Len(meetings_) :
        /\ Lower(event.summary) = Lower(meetings_[j].name)
        /\ Abs(event.start.minute - meetings_[j].start_time) < TIME_MATCH_MINUTES }

\* a slip: `<=` for `<`
TimeTitleCandidatesInclusive(event, meetings_, meeting_ids_matched) ==
    { j \in 1..Len(meetings_) :
        /\ meetings_[j].id \notin meeting_ids_matched
        /\ Lower(event.summary) = Lower(meetings_[j].name)
        /\ Abs(event.start.minute - meetings_[j].start_time) <= TIME_MATCH_MINUTES }

\* the meetings that pass `titles_match and time_diff < timedelta(minutes=5)`
TimeTitleCandidates(event, meetings_, meeting_ids_matched) ==
    { j \in 1..Len(meetings_) :
        /\ meetings_[j].id \notin meeting_ids_matched
        /\ Lower(event.summary) = Lower(meetings_[j].name)
        /\ Abs(event.start.minute - meetings_[j].start_time) < TIME_MATCH_MINUTES }

\* a slip: an event without a start dateTime is passed over and not kept
SkippedEventDropped(unmatched, event) == unmatched

\* lines 248-250: an event without a start dateTime goes to unmatched_events
SkippedEvent(unmatched, event) == Append(unmatched, event)

\* raised: datetime.fromisoformat(event_start_str...) raised ValueError
RECURSIVE TimeTitleLoop(_, _, _, _, _, _)
TimeTitleLoop(events_, meetings_, i, matched_pairs, unmatched, meeting_ids_matched) ==
    IF i > Len(events_)
    THEN [raised             |-> FALSE,
          matched_pairs      |-> matched_pairs,
          unmatched_events   |-> unmatched,
          unmatched_meetings |-> NotMatched(meetings_, meeting_ids_matched)]
    ELSE LET event == events_[i]
         IN  IF event.start = NoStart
             THEN TimeTitleLoop(events_, meetings_, i + 1, matched_pairs,
                                SkippedEvent(unmatched, event), meeting_ids_matched)
             ELSE IF event.start = BadStart
             THEN [raised |-> TRUE, matched_pairs |-> <<>>,
                   unmatched_events |-> <<>>, unmatched_meetings |-> <<>>]
             ELSE LET cands == TimeTitleCandidates(event, meetings_, meeting_ids_matched)
                  IN  IF cands = {}
                      THEN TimeTitleLoop(events_, meetings_, i + 1, matched_pairs,
                                         Append(unmatched, event), meeting_ids_matched)
                      ELSE LET meeting == meetings_[Min(cands)]
                           IN  TimeTitleLoop(events_, meetings_, i + 1,
                                             Append(matched_pairs, <<event, meeting>>),
                                             unmatched, meeting_ids_matched \cup {meeting.id})

MatchByTimeAndTitle(events_, meetings_) ==
    TimeTitleLoop(events_, meetings_, 1, <<>>, <<>>, {})

(***************************************************************************)
(* Stage 3: AIMapper.match_meeting_to_event                                *)
(***************************************************************************)
\* what litellm.completion does: it answers with a text, or it raises
AIResponseTexts ==
    { <<"0">>, <<" ","1","\n">>, <<"+","1">>, <<"2">>, <<"-","1">>,
      <<"N","o","n","e">>, <<"N","O","N","E">>, <<"#","0">> }

AIResponses ==
    { [kind |-> "text", text |-> t] : t \in AIResponseTexts }
      \cup { [kind |-> "raise", text |-> <<>>] }

\* a slip: only the upper bound is tested
IndexBelowLen(best_match_index, n) == best_match_index < n

\* `0 <= best_match_index < len(events)`
IndexInRange(best_match_index, n) == 0 <= best_match_index /\ best_match_index < n

\* events[i], Python list indexing: a negative i counts from the end;
\* <<>> stands for IndexError, which line 87 catches
PyListItem(list, i) ==
    LET k == IF i < 0 THEN Len(list) + i + 1 ELSE i + 1
    IN  IF k \in 1..Len(list) THEN << list[k] >> ELSE <<>>

\* lines 72-89: the parsing of the completion's answer; <<>> is None
ParseAIResponse(response_content, events_) ==
    LET response_text == Strip(response_content)
        parsed        == PyInt(response_text)
    IN  IF Lower(response_text) = <<"n","o","n","e">> THEN <<>>
        ELSE IF ~parsed.ok THEN <<>>
        ELSE IF IndexInRange(parsed.val, Len(events_))
             THEN PyListItem(events_, parsed.val)
             ELSE <<>>

\* a slip: the `if not self.enabled` guard is left out
MapperAlwaysEnabled(enabled) == TRUE

\* self.enabled, set in AIMapper.__init__
MapperEnabled(enabled) == enabled

\* a slip: the handler answers with the first candidate
AfterCompletionErrorFirstEvent(events_) ==
    IF events_ = <<>> THEN <<>> ELSE << events_[1] >>

\* lines 91-93: `except Exception` logs and returns None
AfterCompletionError(events_) == <<>>

\* called: litellm.completion was invoked; result: <<>> (None) or <<event>>
MatchMeetingToEvent(enabled, meeting, events_, response) ==
    IF ~MapperEnabled(enabled) THEN [called |-> FALSE, result |-> <<>>]
    ELSE IF ~meeting.raw_content THEN [called |-> FALSE, result |-> <<>>]
    ELSE IF response.kind = "raise"
         THEN [called |-> TRUE, result |-> AfterCompletionError(events_)]
    ELSE [called |-> TRUE, result |-> ParseAIResponse(response.text, events_)]

(***************************************************************************)
(* GoogleApi and Orchestrator.process_attachment                           *)
(***************************************************************************)
\* the methods class GoogleApi defines
GoogleApiMethods ==
    { "authenticate", "get_concluded_events", "has_attachment",
      "create_and_attach_doc", "list_transcript_files", "get_drive_file_content",
      "delete_google_doc", "remove_attachment_from_event" }

\* self.google_api.<name>(...) raises AttributeError when GoogleApi has no <name>
RaisesAttributeError(name) == name \notin GoogleApiMethods

\* GoogleApi.has_attachment
HasAttachment(attachments, title_prefix) ==
    \E i \in 1..Len(attachments) : StartsWith(attachments[i], title_prefix)

\* a slip: the title is compared without lower()
IsIgnoredCaseSensitive(event_summary) ==
    \E k \in 1..Len(IGNORE_KEYWORDS) : Contains(IGNORE_KEYWORDS[k], event_summary)

\* any(keyword.lower() in event_summary.lower() for keyword in IGNORE_KEYWORDS)
IsIgnored(event_summary) ==
    \E k \in 1..Len(IGNORE_KEYWORDS) :
        Contains(Lower(IGNORE_KEYWORDS[k]), Lower(event_summary))

\* what connector.get_transcript(meeting) does: None, a Transcript with empty
\* text, a Transcript with text, or an exception
TranscriptOutcomes == { "None", "empty", "text", "raise" }

\* one call made while a pair is processed, and what it did
Op(op, kind, title, result) ==
    [op |-> op, kind |-> kind, title |-> title, result |-> result]

\* a slip: the notes branch does not test dry_run
DryRunSkipsTranscriptOnly(dry, kind) == dry /\ kind = "transcript"

\* whether the dry-run flag keeps a document kind from being written
DryRunSkips(dry, kind) == dry

\* a slip: only `if transcript` is tested
HasTextUnlessNone(transcript) == transcript # "None"

\* lines 102 and 117: `if transcript and transcript.text`
HasText(transcript) == transcript = "text"

\* one document kind of process_attachment (lines 98-108 and 111-123):
\* the calls made, and the call whose exception ends them, if any
ProcessKind(event, kind, prefix, doc_title, dry, transcript) ==
    LET fetched == Op("get_transcript", kind, <<>>, transcript)
    IN  IF HasAttachment(event.attachments, prefix)
        THEN [ops |-> <<>>, raised |-> ""]
        ELSE IF transcript = "raise"
        THEN [ops |-> << fetched >>, raised |-> "get_transcript"]
        ELSE IF ~HasText(transcript)
        THEN [ops |-> << fetched >>, raised |-> ""]
        ELSE IF DryRunSkips(dry, kind)
        THEN [ops |-> << fetched >>, raised |-> ""]
        ELSE IF RaisesAttributeError("create_and_attach_google_doc")
        THEN [ops |-> << fetched,
                         Op("create_and_attach_google_doc", kind, doc_title,
                            "AttributeError") >>,
              raised |-> "create_and_attach_google_doc"]
        ELSE [ops |-> << fetched,
                         Op("create_and_attach_google_doc", kind, doc_title, "returned") >>,
              raised |-> ""]

\* Orchestrator.process_attachment(event, meeting, dry_run); t1 and t2 are what
\* the two get_transcript calls do
ProcessAttachment(event, meeting, dry, t1, t2) ==
    IF IsIgnored(event.summary) THEN [ops |-> <<>>, raised |-> ""]
    ELSE LET first == ProcessKind(event, "transcript", TRANSCRIPT_PREFIX,
                                  TranscriptDocTitle(event.summary), dry, t1)
             second == ProcessKind(event, "notes", NOTES_PREFIX,
                                   NotesDocTitle(meeting.name), dry, t2)
         IN  IF first.raised # "" THEN first
             ELSE [ops |-> first.ops \o second.ops, raised |-> second.raised]

(***************************************************************************)
(* State of one Orchestrator.run_cli run.                                  *)
(***************************************************************************)
VARIABLES
    pc,                       \* position in run_cli
    crash_site,               \* the call whose exception left run_cli, "" if none
    ai_enabled,               \* AIMapper.enabled
    dry_run, force_ai,        \* run_cli's arguments
    auth_result,              \* what GoogleApi.authenticate returned
    calendar,                 \* the calendar's concluded events, with attachments
    docs,                     \* the titles of the Google Docs in the document store
    events, meetings,         \* run_cli's fetched lists
    unmatched_events, unmatched_meetings,
    stage1_matches, stage2_matches, all_matches,
    ai_idx,                   \* _match_by_ai: position in unmatched_meetings
    ai_matches, still_unmatched_meetings,
    ai_calls,                 \* number of litellm.completion calls made
    ai_last,                  \* the last match_meeting_to_event call
    proc_idx,                 \* run_cli: position in matched_pairs
    op_log                    \* connector and GoogleApi calls of the latest process_attachment

\* State of one run of the cleanup script (cleanup_attachments.main).
VARIABLES
    cl_pc,                    \* position in main
    cl_args,                  \* --dry-run and --prefix
    cl_calendar,              \* the calendar's concluded events, with attachments
    cl_drive,                 \* the ids of the files in the document store
    cl_events,                \* what find_attachments_to_clean listed
    cl_items,                 \* items_to_clean
    cl_confirm,               \* the answer to the prompt, <<"?">> before it
    cl_idx,                   \* position in the deletion loop
    cl_calls,                 \* delete_google_doc / remove_attachment_from_event calls
    cl_success_count,         \* success_count of the deletion loop
    cl_prev                   \* the runs of the script that ended before this one

\* One call each of the stateless entry points: GoogleApi.get_concluded_events,
\* providers.get_all_meetings, and the calls of attach_document_to_event on one event.
VARIABLES
    ls_call,                  \* the get_concluded_events call
    pv_call,                  \* the get_all_meetings call
    at_attachments,           \* the event's attachment list in the calendar
    at_calls                  \* the attach_document_to_event calls made

\* State of one run of main.main (src/main.py), from the matching on.
VARIABLES
    mn_pc,                    \* position in main
    mn_events,                \* calendar_events, as find_concluded_events returned them
    mn_meetings,              \* tldv_meetings_raw
    mn_conf_ids,              \* conf_ids_to_match
    mn_pairs,                 \* matched_pairs
    mn_unmatched_events, mn_unmatched_tldv,
    mn_idx,                   \* position in the pair loop
    mn_docs,                  \* the Google Docs the run created
    mn_stored,                \* the attachments the calendar holds, per event of mn_events
    mn_log                    \* the calls of the latest pair's processing

mainVars == << mn_pc, mn_events, mn_meetings, mn_conf_ids, mn_pairs, mn_unmatched_events,
               mn_unmatched_tldv, mn_idx, mn_docs, mn_stored, mn_log >>

cleanupVars == << cl_pc, cl_args, cl_calendar, cl_drive, cl_events, cl_items,
                  cl_confirm, cl_idx, cl_calls, cl_success_count, cl_prev >>
attachVars == << at_attachments, at_calls >>
otherVars == << cleanupVars, ls_call, pv_call, attachVars, mainVars >>

orchestratorVars ==
    << pc, crash_site, ai_enabled, dry_run, force_ai, auth_result, calendar, docs,
       events, meetings, unmatched_events, unmatched_meetings, stage1_matches,
       stage2_matches, all_matches, ai_idx, ai_matches, still_unmatched_meetings,
       ai_calls, ai_last, proc_idx, op_log >>

vars == << orchestratorVars, otherVars >>

matchVars ==
    << unmatched_events, unmatched_meetings, stage1_matches, stage2_matches,
       all_matches >>
aiVars == << ai_idx, ai_matches, still_unmatched_meetings, ai_calls, ai_last >>
worldVars == << calendar, docs >>
argVars == << ai_enabled, dry_run, force_ai >>

NoAICall == [made |-> FALSE, called |-> FALSE, text |-> <<>>, kind |-> "",
             candidates |-> <<>>, result |-> <<>>]

NoCall == [made |-> FALSE]

\* the cleanup script is not running
CleanupOff ==
    /\ cl_pc = "off"
    /\ cl_args = [dry_run |-> FALSE, prefix |-> <<>>]
    /\ cl_calendar = <<>>
    /\ cl_drive = {}
    /\ cl_events = <<>>
    /\ cl_items = <<>>
    /\ cl_confirm = <<"?">>
    /\ cl_idx = 0
    /\ cl_calls = <<>>
    /\ cl_success_count = 0
    /\ cl_prev = <<>>

\* main.main is not running
MainOff ==
    /\ mn_pc = "off"
    /\ mn_events = <<>>
    /\ mn_meetings = <<>>
    /\ mn_conf_ids = {}
    /\ mn_pairs = <<>>
    /\ mn_unmatched_events = <<>>
    /\ mn_unmatched_tldv = <<>>
    /\ mn_idx = 0
    /\ mn_docs = <<>>
    /\ mn_stored = <<>>
    /\ mn_log = <<>>

ListingOff == ls_call = NoCall
ProvidersOff == pv_call = NoCall
AttachOff == at_attachments = <<>> /\ at_calls = <<>>

Init ==
    /\ CleanupOff /\ ListingOff /\ ProvidersOff /\ AttachOff /\ MainOff
    /\ pc = "idle"
    /\ crash_site = ""
    /\ ai_enabled \in BOOLEAN
    /\ dry_run = FALSE
    /\ force_ai = FALSE
    /\ auth_result = "pending"
    /\ calendar \in EventLists
    /\ docs = {}
    /\ events = <<>>
    /\ meetings = <<>>
    /\ unmatched_events = <<>>
    /\ unmatched_meetings = <<>>
    /\ stage1_matches = <<>>
    /\ stage2_matches = <<>>
    /\ all_matches = <<>>
    /\ ai_idx = 0
    /\ ai_matches = <<>>
    /\ still_unmatched_meetings = <<>>
    /\ ai_calls = 0
    /\ ai_last = NoAICall
    /\ proc_idx = 0
    /\ op_log = <<>>

\* run_cli(days, dry_run, force_ai) is entered
RunCli(dry, force) ==
    /\ pc = "idle"
    /\ pc' = "authenticate"
    /\ dry_run' = dry
    /\ force_ai' = force
    /\ UNCHANGED << crash_site, ai_enabled, auth_result, worldVars, otherVars, events, meetings,
                    matchVars, aiVars, proc_idx, op_log >>

\* a slip: run_cli does not test what self.authenticate() returned
AfterAuthenticateUnchecked(ok) == "fetch_events"

\* where run_cli goes after self.authenticate() returned `ok`
AfterAuthenticate(ok) == IF ok THEN "fetch_events" ELSE "done"

\* Orchestrator.authenticate: GoogleApi.authenticate returns True or False, or raises
Authenticate(outcome) ==
    /\ pc = "authenticate"
    /\ auth_result' = outcome
    /\ IF outcome = "raise"
       THEN pc' = "crashed" /\ crash_site' = "authenticate"
       ELSE pc' = AfterAuthenticate(outcome = "True") /\ crash_site' = crash_site
    /\ UNCHANGED << argVars, worldVars, otherVars, events, meetings, matchVars, aiVars,
                    proc_idx, op_log >>

\* fetch_calendar_events: get_concluded_events returns the calendar's events, or []
\* after an API error it caught
FetchCalendarEvents(failed) ==
    /\ pc = "fetch_events"
    /\ events' = IF failed THEN <<>> ELSE calendar
    /\ pc' = IF events' = <<>> THEN "done" ELSE "fetch_meetings"
    /\ UNCHANGED << crash_site, argVars, auth_result, worldVars, otherVars, meetings, matchVars,
                    aiVars, proc_idx, op_log >>

\* fetch_meetings_from_connector: connector.get_meetings returns a list
FetchMeetings(found) ==
    /\ pc = "fetch_meetings"
    /\ meetings' = found
    /\ pc' = IF found = <<>> THEN "done" ELSE "match"
    /\ unmatched_events' = IF found = <<>> THEN <<>> ELSE events
    /\ unmatched_meetings' = found
    /\ UNCHANGED << crash_site, argVars, auth_result, worldVars, otherVars, events,
                    stage1_matches, stage2_matches, all_matches, aiVars, proc_idx,
                    op_log >>

\* match_events_and_meetings, force_ai: stages 1 and 2 are skipped
SkipToAI ==
    /\ pc = "match"
    /\ force_ai
    /\ pc' = "stage3_gate"
    /\ UNCHANGED << crash_site, argVars, auth_result, worldVars, otherVars, events, meetings,
                    matchVars, aiVars, proc_idx, op_log >>

\* match_events_and_meetings lines 62-63
Stage1 ==
    /\ pc = "match"
    /\ ~force_ai
    /\ LET r == MatchByConferenceId(unmatched_events, unmatched_meetings)
       IN  /\ stage1_matches' = r.matched_pairs
           /\ unmatched_events' = r.unmatched_events
           /\ unmatched_meetings' = r.unmatched_meetings
           /\ all_matches' = all_matches \o r.matched_pairs
    /\ pc' = "stage2"
    /\ UNCHANGED << crash_site, argVars, auth_result, worldVars, otherVars, events, meetings,
                    stage2_matches, aiVars, proc_idx, op_log >>

\* match_events_and_meetings lines 66-67
Stage2 ==
    /\ pc = "stage2"
    /\ LET r == MatchByTimeAndTitle(unmatched_events, unmatched_meetings)
       IN  IF r.raised
           THEN /\ pc' = "crashed"
                /\ crash_site' = "_match_by_time_and_title"
                /\ UNCHANGED matchVars
           ELSE /\ pc' = "stage3_gate"
                /\ crash_site' = crash_site
                /\ stage2_matches' = r.matched_pairs
                /\ unmatched_events' = r.unmatched_events
                /\ unmatched_meetings' = r.unmatched_meetings
                /\ all_matches' = all_matches \o r.matched_pairs
                /\ UNCHANGED stage1_matches
    /\ UNCHANGED << argVars, auth_result, worldVars, otherVars, events, meetings, aiVars,
                    proc_idx, op_log >>

\* line 70: `if unmatched_events and unmatched_meetings`
Stage3Gate ==
    /\ pc = "stage3_gate"
    /\ IF unmatched_events # <<>> /\ unmatched_meetings # <<>>
       THEN pc' = "stage3" /\ ai_idx' = 1
       ELSE pc' = "matched" /\ ai_idx' = ai_idx
    /\ UNCHANGED << crash_site, argVars, auth_result, worldVars, otherVars, events, meetings,
                    matchVars, ai_matches, still_unmatched_meetings, ai_calls,
                    ai_last, proc_idx, op_log >>

\* a slip: a recording that found no event is submitted again
AfterAttemptRetryUnmatched(idx, matched) == IF matched THEN idx + 1 ELSE idx

\* `for meeting in unmatched_meetings`: the loop goes on to the next recording
\* whether or not the one attempted was matched
AfterAttempt(idx, matched) == idx + 1

\* a slip: with force_ai the caller's list itself is handed to _match_by_ai
EventPoolObjectAliased(force) == IF force THEN "caller" ELSE "local"

\* the list object _match_by_ai receives as unmatched_events and shortens with
\* remove(): the copy `list(events)` of line 56 when force_ai skips stages 1
\* and 2, else the list stage 2 built (lines 243-273); never the caller's list
EventPoolObject(force) == "local"

\* _match_by_ai: one iteration of `for meeting in unmatched_meetings`
AIStep(response) ==
    /\ pc = "stage3"
    /\ ai_idx <= Len(unmatched_meetings)
    /\ \E meeting \in { unmatched_meetings[ai_idx] } :
       \E r \in { MatchMeetingToEvent(ai_enabled, meeting, unmatched_events, response) } :
           /\ ai_last' = [made |-> TRUE, called |-> r.called,
                          text |-> IF r.called THEN response.text ELSE <<>>,
                          kind |-> IF r.called THEN response.kind ELSE "",
                          candidates |-> unmatched_events, result |-> r.result]
           /\ ai_calls' = IF r.called THEN ai_calls + 1 ELSE ai_calls
           /\ IF r.result # <<>>
              THEN /\ ai_matches' = Append(ai_matches, <<r.result[1], meeting>>)
                   /\ unmatched_events' = RemoveFirst(unmatched_events, r.result[1])
                   /\ events' = IF EventPoolObject(force_ai) = "caller"
                                THEN RemoveFirst(events, r.result[1])
                                ELSE events
                   /\ UNCHANGED still_unmatched_meetings
              ELSE /\ still_unmatched_meetings' = Append(still_unmatched_meetings, meeting)
                   /\ UNCHANGED << ai_matches, unmatched_events, events >>
    /\ ai_idx' = AfterAttempt(ai_idx, ai_matches' # ai_matches)
    /\ UNCHANGED << pc, crash_site, argVars, auth_result, worldVars, otherVars, meetings,
                    unmatched_meetings, stage1_matches, stage2_matches, all_matches,
                    proc_idx, op_log >>

\* _match_by_ai returns; match_events_and_meetings lines 71-72
Stage3Return ==
    /\ pc = "stage3"
    /\ ai_idx > Len(unmatched_meetings)
    /\ pc' = "matched"
    /\ unmatched_meetings' = still_unmatched_meetings
    /\ all_matches' = all_matches \o ai_matches
    /\ ai_last' = NoAICall
    /\ UNCHANGED << crash_site, argVars, auth_result, worldVars, otherVars, events, meetings,
                    unmatched_events, stage1_matches, stage2_matches, ai_idx,
                    ai_matches, still_unmatched_meetings, ai_calls, proc_idx, op_log >>

\* run_cli lines 172-178: match_events_and_meetings returned all_matches
MatchReturn ==
    /\ pc = "matched"
    /\ IF all_matches = <<>>
       THEN pc' = "done" /\ proc_idx' = proc_idx
       ELSE pc' = "processing" /\ proc_idx' = 1
    /\ UNCHANGED << crash_site, argVars, auth_result, worldVars, otherVars, events, meetings,
                    matchVars, aiVars, op_log >>

\* run_cli lines 179-180: one iteration of the pair loop
ProcessPair(t1, t2) ==
    /\ pc = "processing"
    /\ proc_idx <= Len(all_matches)
    /\ \E r \in { ProcessAttachment(all_matches[proc_idx][1], all_matches[proc_idx][2],
                                      dry_run, t1, t2) } :
           /\ op_log' =
                 [i \in 1..Len(r.ops) |->
                     [pair |-> proc_idx, op |-> r.ops[i].op, kind |-> r.ops[i].kind,
                      title |-> r.ops[i].title, result |-> r.ops[i].result]]
           /\ IF r.raised # ""
              THEN pc' = "crashed" /\ crash_site' = r.raised /\ proc_idx' = proc_idx
              ELSE pc' = pc /\ crash_site' = crash_site /\ proc_idx' = proc_idx + 1
    /\ UNCHANGED << argVars, auth_result, worldVars, otherVars, events, meetings, matchVars,
                    aiVars >>

\* run_cli line 182: the pair loop is over
RunCliReturn ==
    /\ pc = "processing"
    /\ proc_idx > Len(all_matches)
    /\ pc' = "done"
    /\ UNCHANGED << crash_site, argVars, auth_result, worldVars, otherVars, events, meetings,
                    matchVars, aiVars, proc_idx, op_log >>

Next ==
    \/ \E dry \in BOOLEAN, force \in BOOLEAN : RunCli(dry, force)
    \/ \E outcome \in {"True", "False", "raise"} : Authenticate(outcome)
    \/ \E failed \in BOOLEAN : FetchCalendarEvents(failed)
    \/ \E found \in MeetingLists : FetchMeetings(found)
    \/ SkipToAI
    \/ Stage1
    \/ Stage2
    \/ Stage3Gate
    \/ \E response \in AIResponses : AIStep(response)
    \/ Stage3Return
    \/ MatchReturn
    \/ \E t1 \in TranscriptOutcomes, t2 \in TranscriptOutcomes : ProcessPair(t1, t2)
    \/ RunCliReturn

Spec == Init /\ [][Next]_vars

\* the Orchestrator is not running
OrchestratorOff ==
    /\ pc = "off"
    /\ crash_site = ""
    /\ ai_enabled = FALSE
    /\ dry_run = FALSE
    /\ force_ai = FALSE
    /\ auth_result = "pending"
    /\ calendar = <<>>
    /\ docs = {}
    /\ events = <<>>
    /\ meetings = <<>>
    /\ unmatched_events = <<>>
    /\ unmatched_meetings = <<>>
    /\ stage1_matches = <<>>
    /\ stage2_matches = <<>>
    /\ all_matches = <<>>
    /\ ai_idx = 0
    /\ ai_matches = <<>>
    /\ still_unmatched_meetings = <<>>
    /\ ai_calls = 0
    /\ ai_last = NoAICall
    /\ proc_idx = 0
    /\ op_log = <<>>

(***************************************************************************)
(* The cleanup script: cleanup_attachments.py, with                        *)
(* GoogleApi.delete_google_doc and GoogleApi.remove_attachment_from_event. *)
(***************************************************************************)
\* longest list of events the cleanup script lists
MaxCleanupEvents == 2

sSlashD == <<"/","d","/">>

\* the first place where `sub` occurs in s; 0 if nowhere
Find(sub, s) ==
    IF Contains(sub, s)
    THEN Min({ i \in 1..(Len(s) - Len(sub) + 1) : SubSeq(s, i, i + Len(sub) - 1) = sub })
    ELSE 0

\* s.split(sep)[0]
BeforeFirst(sep, s) ==
    IF Contains(sep, s) THEN SubSeq(s, 1, Find(sep, s) - 1) ELSE s

\* s.split(sep)[1], for an s that holds sep
SecondPiece(sep, s) ==
    LET rest == SubSeq(s, Find(sep, s) + Len(sep), Len(s))
    IN  BeforeFirst(sep, rest)

\* file_url.split('/d/')[1].split('/')[0] if '/d/' in file_url else None;
\* <<>> stands for None and for '', which line 25 treats alike
FileIdOf(file_url) ==
    IF Contains(sSlashD, file_url)
    THEN BeforeFirst(<<"/">>, SecondPiece(sSlashD, file_url))
    ELSE <<>>

\* an attachment of an event: {'title': ..., 'fileUrl': ...}; <<>> for a missing key
Attachment(title, fileUrl) == [title |-> title, fileUrl |-> fileUrl]

DocUrl(file_id) == <<"u","/","d","/">> \o file_id \o <<"/","e">>

sAgenda == <<"A","g","e","n","d","a">>

\* attachments of the modelled events: two written by the connector, two with
\* other titles (one holds the prefix, not at its start), one whose URL has no
\* '/d/' part, one without a title
attTranscript == Attachment(TRANSCRIPT_PREFIX \o <<" ">> \o sSync, DocUrl(<<"f","1">>))
attNotes      == Attachment(NOTES_PREFIX \o <<" ">> \o sSync, DocUrl(<<"f","2">>))
attAgenda     == Attachment(sAgenda, DocUrl(<<"f","3">>))
attAgendaFor  == Attachment(sAgenda \o <<" ">> \o TRANSCRIPT_PREFIX, DocUrl(<<"f","4">>))
attNoFileId   == Attachment(TRANSCRIPT_PREFIX \o <<" ">> \o sPlan, <<"u","/","f","5">>)
attUntitled   == Attachment(<<>>, DocUrl(<<"f","6">>))
attTranscriptPlan == Attachment(TRANSCRIPT_PREFIX \o <<" ">> \o sPlan, DocUrl(<<"f","7">>))

CleanupAttachmentLists ==
    { <<>>, << attTranscript, attAgenda >>, << attNotes >>,
      << attAgendaFor, attTranscript >>, << attNoFileId, attUntitled >>,
      << attTranscript, attNotes, attAgenda >>,
      << attTranscript, attTranscriptPlan >> }

CleanupEvent(id, summary, attachments) ==
    [id |-> id, summary |-> summary, attachments |-> attachments]

CleanupEventIds == << "ev1", "ev2", "ev3" >>

\* the calendars: up to MaxCleanupEvents events, the k-th with the k-th id
CleanupCalendars ==
    UNION { { [k \in 1..n |-> CleanupEvent(CleanupEventIds[k], sSync, als[k])] :
                als \in [1..n -> CleanupAttachmentLists] } :
            n \in 0..MaxCleanupEvents }

\* the ids of the files the calendar's attachments point to
FileIdsOf(calendar_) ==
    UNION { { FileIdOf(att.fileUrl) : att \in Range(calendar_[i].attachments) } :
            i \in 1..Len(calendar_) } \ { <<>> }

\* the values of --prefix used: the default 'Transcript for', and 'AI Notes for'
CleanupPrefixes == { TRANSCRIPT_PREFIX, NOTES_PREFIX }

\* what the user types at the prompt
ConfirmAnswers == { <<"y">>, <<"Y">>, <<"n">>, <<>>, <<"y","e","s">>, <<" ","y">> }

\* a slip: every titled attachment is selected, whatever its title starts with
TitleSelectedAnyTitle(title, prefix) == title # <<>>

\* line 22: `title and title.startswith(prefix)`
TitleSelected(title, prefix) == title # <<>> /\ StartsWith(title, prefix)

\* a slip: only the first selected attachment of an event becomes an item
ItemsOfEventFirstOnly(event, prefix) ==
    LET selected ==
            SelectSeq(event.attachments,
                      LAMBDA att : /\ TitleSelected(att.title, prefix)
                                   /\ FileIdOf(att.fileUrl) # <<>>)
    IN  [k \in 1..(IF selected = <<>> THEN 0 ELSE 1) |->
            [event_id         |-> event.id,
             event_summary    |-> event.summary,
             attachment_title |-> selected[k].title,
             file_id          |-> FileIdOf(selected[k].fileUrl)]]

\* lines 20-31: the items of one event
ItemsOfEvent(event, prefix) ==
    LET selected ==
            SelectSeq(event.attachments,
                      LAMBDA att : /\ TitleSelected(att.title, prefix)
                                   /\ FileIdOf(att.fileUrl) # <<>>)
    IN  [k \in 1..Len(selected) |->
            [event_id         |-> event.id,
             event_summary    |-> event.summary,
             attachment_title |-> selected[k].title,
             file_id          |-> FileIdOf(selected[k].fileUrl)]]

\* find_attachments_to_clean, over the events get_concluded_events returned
RECURSIVE FindAttachmentsToClean(_, _)
FindAttachmentsToClean(events_, prefix) ==
    IF events_ = <<>> THEN <<>>
    ELSE ItemsOfEvent(Head(events_), prefix)
             \o FindAttachmentsToClean(Tail(events_), prefix)

\* a slip: everything but 'n' counts as consent
ConfirmedUnlessNo(answer) == Lower(answer) # <<"n">>

\* line 75: `confirm.lower() != 'y'` cancels
Confirmed(answer) == Lower(answer) = <<"y">>

\* a slip: a 404 is reported as a failure like any other HttpError
DeleteGoogleDocStrict(drive, file_id, outcome) ==
    IF outcome = "error"
    THEN [drive |-> drive, status |-> "failed", result |-> FALSE]
    ELSE IF file_id \notin drive
    THEN [drive |-> drive, status |-> "not_found", result |-> FALSE]
    ELSE [drive |-> drive \ {file_id}, status |-> "deleted", result |-> TRUE]

\* GoogleApi.delete_google_doc: the drive call deletes the file, answers 404 for
\* a file that is not there (taken as deleted), or fails otherwise
DeleteGoogleDoc(drive, file_id, outcome) ==
    IF outcome = "error"
    THEN [drive |-> drive, status |-> "failed", result |-> FALSE]
    ELSE IF file_id \notin drive
    THEN [drive |-> drive, status |-> "not_found", result |-> TRUE]
    ELSE [drive |-> drive \ {file_id}, status |-> "deleted", result |-> TRUE]

\* GoogleApi.remove_attachment_from_event: events().get, then events().patch
\* with the attachments whose title differs
RemoveAttachmentFromEvent(calendar_, event_id, attachment_title, outcome) ==
    LET i == CHOOSE k \in 1..Len(calendar_) : calendar_[k].id = event_id
        current_attachments == calendar_[i].attachments
        updated_attachments ==
            SelectSeq(current_attachments, LAMBDA att : att.title # attachment_title)
    IN  IF outcome = "get_error"
        THEN [calendar |-> calendar_, status |-> "failed", result |-> FALSE]
        ELSE IF ~\E att \in Range(current_attachments) : att.title = attachment_title
        THEN [calendar |-> calendar_, status |-> "absent", result |-> TRUE]
        ELSE IF outcome = "patch_error"
        THEN [calendar |-> calendar_, status |-> "failed", result |-> FALSE]
        ELSE [calendar |-> [calendar_ EXCEPT ![i].attachments = updated_attachments],
              status |-> "removed", result |-> TRUE]

CleanupCall(op, item, status, result) ==
    [op |-> op, event_id |-> item.event_id, title |-> item.attachment_title,
     file_id |-> item.file_id, status |-> status, result |-> result]

CleanupInit ==
    /\ OrchestratorOff /\ ListingOff /\ ProvidersOff /\ AttachOff /\ MainOff
    /\ cl_pc = "idle"
    /\ cl_args = [dry_run |-> FALSE, prefix |-> <<>>]
    /\ cl_calendar \in CleanupCalendars
    /\ cl_drive = FileIdsOf(cl_calendar)
    /\ cl_events = <<>>
    /\ cl_items = <<>>
    /\ cl_confirm = <<"?">>
    /\ cl_idx = 0
    /\ cl_calls = <<>>
    /\ cl_success_count = 0
    /\ cl_prev = <<>>

cleanupRest == << orchestratorVars, ls_call, pv_call, attachVars, mainVars >>

\* main lines 36-52: the arguments are parsed
CleanupMain(dry, prefix) ==
    /\ cl_pc = "idle"
    /\ cl_args' = [dry_run |-> dry, prefix |-> prefix]
    /\ cl_pc' = "authenticate"
    /\ UNCHANGED << cl_calendar, cl_drive, cl_events, cl_items, cl_confirm, cl_idx,
                    cl_calls, cl_success_count, cl_prev, cleanupRest >>

\* main lines 55-58
CleanupAuthenticate(ok) ==
    /\ cl_pc = "authenticate"
    /\ cl_pc' = IF ok THEN "find" ELSE "done"
    /\ UNCHANGED << cl_args, cl_calendar, cl_drive, cl_events, cl_items, cl_confirm,
                    cl_idx, cl_calls, cl_success_count, cl_prev, cleanupRest >>

\* main lines 60-72: find_attachments_to_clean, then the returns for no item
\* and for --dry-run; get_concluded_events returns [] after an API error
CleanupFind(failed) ==
    /\ cl_pc = "find"
    /\ cl_events' = IF failed THEN <<>> ELSE cl_calendar
    /\ cl_items' = FindAttachmentsToClean(cl_events', cl_args.prefix)
    /\ cl_pc' = IF cl_items' = <<>> THEN "done"
                ELSE IF cl_args.dry_run THEN "done"
                ELSE "confirm"
    /\ UNCHANGED << cl_args, cl_calendar, cl_drive, cl_confirm, cl_idx, cl_calls,
                    cl_success_count, cl_prev, cleanupRest >>

\* main lines 74-80: the prompt
CleanupConfirm(answer) ==
    /\ cl_pc = "confirm"
    /\ cl_confirm' = answer
    /\ IF Confirmed(answer)
       THEN cl_pc' = "deleting" /\ cl_idx' = 1
       ELSE cl_pc' = "done" /\ cl_idx' = cl_idx
    /\ UNCHANGED << cl_args, cl_calendar, cl_drive, cl_events, cl_items, cl_calls,
                    cl_success_count, cl_prev, cleanupRest >>

\* main lines 81-92: one iteration of the deletion loop
CleanupDelete(delete_outcome, remove_outcome) ==
    /\ cl_pc = "deleting"
    /\ cl_idx <= Len(cl_items)
    /\ \E item \in { cl_items[cl_idx] } :
       \E d \in { DeleteGoogleDoc(cl_drive, item.file_id, delete_outcome) } :
       \E r \in { RemoveAttachmentFromEvent(cl_calendar, item.event_id,
                                             item.attachment_title, remove_outcome) } :
           /\ cl_drive' = d.drive
           /\ IF d.result
              THEN /\ cl_calendar' = r.calendar
                   /\ cl_calls' = cl_calls
                         \o << CleanupCall("delete_google_doc", item, d.status, TRUE),
                               CleanupCall("remove_attachment_from_event", item,
                                           r.status, r.result) >>
                   /\ cl_success_count' = cl_success_count + (IF r.result THEN 1 ELSE 0)
              ELSE /\ cl_calendar' = cl_calendar
                   /\ cl_calls' = Append(cl_calls,
                                         CleanupCall("delete_google_doc", item,
                                                     d.status, FALSE))
                   /\ cl_success_count' = cl_success_count
    /\ cl_idx' = cl_idx + 1
    /\ UNCHANGED << cl_pc, cl_args, cl_events, cl_items, cl_confirm, cl_prev,
                    cleanupRest >>

\* main line 94: the loop is over
CleanupFinish ==
    /\ cl_pc = "deleting"
    /\ cl_idx > Len(cl_items)
    /\ cl_pc' = "done"
    /\ UNCHANGED << cl_args, cl_calendar, cl_drive, cl_events, cl_items, cl_confirm,
                    cl_idx, cl_calls, cl_success_count, cl_prev, cleanupRest >>

CleanupNext ==
    \/ \E dry \in BOOLEAN, prefix \in CleanupPrefixes : CleanupMain(dry, prefix)
    \/ \E ok \in BOOLEAN : CleanupAuthenticate(ok)
    \/ \E failed \in BOOLEAN : CleanupFind(failed)
    \/ \E answer \in ConfirmAnswers : CleanupConfirm(answer)
    \/ \E delete_outcome \in {"ok", "error"},
          remove_outcome \in {"ok", "get_error", "patch_error"} :
          CleanupDelete(delete_outcome, remove_outcome)
    \/ CleanupFinish

CleanupSpec == CleanupInit /\ [][CleanupNext]_vars

\* most runs of the script, one after the other
MaxCleanupRuns == 2

\* the script has ended and is started again: `main` begins anew with its own
\* locals, over the calendar and the document store the run before left
CleanupRerun ==
    /\ cl_pc = "done"
    /\ Len(cl_prev) + 1 < MaxCleanupRuns
    /\ cl_prev' = Append(cl_prev, [args |-> cl_args, events |-> cl_events,
                                   items |-> cl_items, confirm |-> cl_confirm,
                                   calls |-> cl_calls])
    /\ cl_pc' = "idle"
    /\ cl_args' = [dry_run |-> FALSE, prefix |-> <<>>]
    /\ cl_events' = <<>>
    /\ cl_items' = <<>>
    /\ cl_confirm' = <<"?">>
    /\ cl_idx' = 0
    /\ cl_calls' = <<>>
    /\ cl_success_count' = 0
    /\ UNCHANGED << cl_calendar, cl_drive, cleanupRest >>

CleanupRerunNext ==
    \/ CleanupNext
    \/ CleanupRerun

CleanupRerunSpec == CleanupInit /\ [][CleanupRerunNext]_vars

(***************************************************************************)
(* GoogleApi.get_concluded_events                                          *)
(***************************************************************************)
\* longest list of items events().list returns
MaxListed == 3

\* an item of the calendar's answer; `end` is read like `start`
ListedItem(id, end) == [id |-> id, end |-> end]

ListedItemPool ==
    { ListedItem("it1", StartAt(1)), ListedItem("it2", StartAt(2)),
      ListedItem("it3", StartAt(3)), ListedItem("it4", NoStart),
      ListedItem("it5", BadStart) }

ListedItemLists == InjectiveSeqs(ListedItemPool, MaxListed)

\* the values of datetime.now(timezone.utc), in minutes
ListingTimes == { 2, 3 }

\* a slip: `<=` for `<`
EndedByNow(end_minute, now) == end_minute <= now

\* line 96: `end_time < now`
EndedBefore(end_minute, now) == end_minute < now

\* get_concluded_events: [] when the API call fails or an end dateTime does not
\* parse (both caught at lines 99-104), else the items that have ended
GetConcludedEvents(items, now, failed) ==
    IF failed THEN <<>>
    ELSE IF \E i \in 1..Len(items) : items[i].end = BadStart THEN <<>>
    ELSE SelectSeq(items, LAMBDA event : /\ event.end.dateTime = "iso"
                                         /\ EndedBefore(event.end.minute, now))

ListingInit ==
    /\ OrchestratorOff /\ CleanupOff /\ ProvidersOff /\ AttachOff /\ MainOff
    /\ ls_call \in { [made |-> FALSE, items |-> items, now |-> now, result |-> <<>>] :
                       items \in ListedItemLists, now \in ListingTimes }

\* one call of get_concluded_events
ListConcludedEvents(failed) ==
    /\ ~ls_call.made
    /\ ls_call' = [ls_call EXCEPT
                     !.made = TRUE,
                     !.result = GetConcludedEvents(ls_call.items, ls_call.now, failed)]
    /\ UNCHANGED << orchestratorVars, cleanupVars, pv_call, attachVars, mainVars >>

ListingNext == \E failed \in BOOLEAN : ListConcludedEvents(failed)

ListingSpec == ListingInit /\ [][ListingNext]_vars

(***************************************************************************)
(* providers.get_enabled_providers and providers.get_all_meetings          *)
(***************************************************************************)
sTldv      == <<"t","l","d","v">>
sFireflies == <<"f","i","r","e","f","l","i","e","s">>
sZoom      == <<"z","o","o","m">>

\* the keys of PROVIDER_MAP
PROVIDER_NAMES == { sTldv, sFireflies }

\* s.split(',')
RECURSIVE SplitComma(_)
SplitComma(s) ==
    IF Contains(<<",">>, s)
    THEN << BeforeFirst(<<",">>, s) >>
             \o SplitComma(SubSeq(s, Find(<<",">>, s) + 1, Len(s)))
    ELSE << s >>

\* the values of MEETING_PROVIDERS; the first is the default
ProviderSettings ==
    { sTldv,
      sFireflies,
      sTldv \o <<",">> \o sFireflies,
      sFireflies \o <<","," ">> \o sTldv,
      sZoom \o <<",">> \o sTldv,
      sFireflies \o <<",">> \o sFireflies,
      sTldv \o <<",">> \o sFireflies \o <<",">> \o sTldv }

\* what provider_module.get_meetings() does.  The tldv listing
\* (tldv_api.get_meetings) returns the decoded JSON body, None after a request
\* error, or raises ValueError without TLDV_API_KEY; fireflies.get_meetings
\* returns a list: the transcripts, or [] (also without FIREFLIES_API_KEY).
TldvListings      == { "dict", "dict_empty", "None", "raise" }
FirefliesListings == { "list", "list_empty" }

ListingsOf(name) == IF name = sTldv THEN TldvListings ELSE FirefliesListings

\* the meeting dicts inside a listing, as the provider returns them
ListedMeetings(listing) ==
    CASE listing = "dict" -> << [id |-> "t1", source |-> ""], [id |-> "t2", source |-> ""] >>
      [] listing = "list" -> << [id |-> "f1", source |-> "fireflies"] >>
      [] OTHER            -> <<>>

\* lines 18-19: the stripped name if PROVIDER_MAP has it
EnabledName(name) == IF Strip(name) \in PROVIDER_NAMES THEN << Strip(name) >> ELSE <<>>

\* get_enabled_providers: the names whose module importlib loaded;
\* imported[k] tells whether the import of the k-th name succeeds
RECURSIVE LoadedProviders(_, _, _)
LoadedProviders(provider_names, imported, k) ==
    IF k > Len(provider_names) THEN <<>>
    ELSE (IF EnabledName(provider_names[k]) # <<>> /\ imported[k]
          THEN << [name |-> EnabledName(provider_names[k])[1], at |-> k] >>
          ELSE <<>>)
         \o LoadedProviders(provider_names, imported, k + 1)

\* meeting['source'] = name
Tagged(meetings_, name) ==
    [i \in 1..Len(meetings_) |-> [meetings_[i] EXCEPT !.source = name]]

\* lines 35-46 for one provider: what it adds to all_meetings
MeetingsFrom(name, listing) ==
    CASE listing = "raise"      -> <<>>    \* caught at line 45
      [] listing = "None"       -> <<>>    \* `meetings and ...` is falsy
      [] listing = "list_empty" -> <<>>    \* an empty list is falsy
      [] listing = "list"       -> <<>>    \* list has no .get: AttributeError, caught
      [] listing = "dict_empty" -> <<>>    \* meetings.get('results') is falsy
      [] listing = "dict"       -> Tagged(ListedMeetings(listing), name)

\* get_all_meetings
RECURSIVE GetAllMeetings(_, _, _)
GetAllMeetings(loaded, listings, k) ==
    IF k > Len(loaded) THEN <<>>
    ELSE MeetingsFrom(loaded[k].name, listings[loaded[k].at])
             \o GetAllMeetings(loaded, listings, k + 1)

ProvidersInit ==
    /\ OrchestratorOff /\ CleanupOff /\ ListingOff /\ AttachOff /\ MainOff
    /\ pv_call \in { [made |-> FALSE, setting |-> setting, provider_names |-> <<>>,
                      imported |-> <<>>, listings |-> <<>>, result |-> <<>>] :
                       setting \in ProviderSettings }

\* one call of get_all_meetings
GetAllMeetingsCall ==
    /\ ~pv_call.made
    /\ \E provider_names \in { SplitComma(pv_call.setting) } :
       \E imported \in [1..Len(provider_names) -> BOOLEAN] :
       \E listings \in [1..Len(provider_names) -> TldvListings \cup FirefliesListings] :
           /\ \A k \in 1..Len(provider_names) :
                 IF EnabledName(provider_names[k]) # <<>> /\ imported[k]
                 THEN listings[k] \in ListingsOf(EnabledName(provider_names[k])[1])
                 ELSE listings[k] = "None"
           /\ pv_call' = [pv_call EXCEPT
                 !.made = TRUE,
                 !.provider_names = provider_names,
                 !.imported = imported,
                 !.listings = listings,
                 !.result = GetAllMeetings(LoadedProviders(provider_names, imported, 1),
                                           listings, 1)]
    /\ UNCHANGED << orchestratorVars, cleanupVars, ls_call, attachVars, mainVars >>

ProvidersNext == GetAllMeetingsCall

ProvidersSpec == ProvidersInit /\ [][ProvidersNext]_vars

(***************************************************************************)
(* google_calendar_api.attach_document_to_event                            *)
(***************************************************************************)
\* most calls of attach_document_to_event made on the event
MaxAttachCalls == 3

\* the attachment lists the event starts with
AttachStartLists ==
    { <<>>, << attAgenda >>, << attTranscript, attAgenda >>, << attUntitled >> }

\* file_details.get('name'): a title, or <<>> for None (no 'name' key)
AttachTitles == { attTranscript.title, attNotes.title, <<>> }

AttachFileIds == { <<"f","1">>, <<"f","7">> }

\* a slip: only the first attachment is compared
AlreadyAttachedFirstOnly(attachments, file_title) ==
    attachments # <<>> /\ attachments[1].title = file_title

\* line 62: any(att.get('title') == file_title for att in attachments)
AlreadyAttached(attachments, file_title) ==
    \E att \in Range(attachments) : att.title = file_title

\* attach_document_to_event on an event whose attachments in the calendar are
\* `stored`: what it read, the body it patched with (<<>> and patched FALSE if
\* it issued no patch), what it returned and the attachments stored afterwards
AttachDocumentToEvent(stored, file_id, file_title, outcome) ==
    LET attachments == stored
        body        == Append(attachments, Attachment(file_title, DocUrl(file_id)))
    IN  IF outcome = "get_error"
        THEN [read |-> <<>>, got |-> FALSE, patched |-> FALSE, body |-> <<>>,
              result |-> "None", stored |-> stored]
        ELSE IF AlreadyAttached(attachments, file_title)
        THEN [read |-> attachments, got |-> TRUE, patched |-> FALSE, body |-> <<>>,
              result |-> "None", stored |-> stored]
        ELSE IF outcome = "patch_error"
        THEN [read |-> attachments, got |-> TRUE, patched |-> TRUE, body |-> body,
              result |-> "None", stored |-> stored]
        ELSE [read |-> attachments, got |-> TRUE, patched |-> TRUE, body |-> body,
              result |-> "True", stored |-> body]

AttachInit ==
    /\ OrchestratorOff /\ CleanupOff /\ ListingOff /\ ProvidersOff /\ MainOff
    /\ at_attachments \in AttachStartLists
    /\ at_calls = <<>>

\* one call of attach_document_to_event
AttachCall(file_id, file_title, outcome) ==
    /\ Len(at_calls) < MaxAttachCalls
    /\ \E r \in { AttachDocumentToEvent(at_attachments, file_id, file_title, outcome) } :
           /\ at_attachments' = r.stored
           /\ at_calls' = Append(at_calls,
                 [file_id |-> file_id, file_title |-> file_title, read |-> r.read,
                  got |-> r.got, patched |-> r.patched, body |-> r.body,
                  result |-> r.result])
    /\ UNCHANGED << orchestratorVars, cleanupVars, ls_call, pv_call, mainVars >>

AttachNext ==
    \E file_id \in AttachFileIds, file_title \in AttachTitles,
       outcome \in {"ok", "get_error", "patch_error"} :
        AttachCall(file_id, file_title, outcome)

AttachSpec == AttachInit /\ [][AttachNext]_vars

(***************************************************************************)
(* main.main (src/main.py) from line 51 on: the two matching stages and    *)
(* the pair loop, for the lists lines 40 and 46 bound, with                *)
(* google_docs_api.create_google_doc and share_file_publicly.              *)
(***************************************************************************)
\* longest list of calendar events main.main is given
MaxMainEvents == 2
\* longest list of TLDV recordings main.main is given
MaxMainMeetings == 2

\* a meeting dict of the TLDV listing; conferenceId is
\* extraProperties.conferenceId, recordingStartedAt is read like an event's start
TldvMeeting(id, name, recordingStartedAt, conf) ==
    [id |-> id, name |-> name, recordingStartedAt |-> recordingStartedAt,
     conferenceId |-> conf]

\* two events of one meeting series (the same conference ID), an ignored
\* all-day event, an event that has its transcript, an event whose start does
\* not parse
MainEventPool ==
    { Event("ev1", sSync, StartAt(0), "c1", <<>>),
      Event("ev2", sPlan, StartAt(3), "c1", <<>>),
      Event("ev3", sCatchUp, NoStart, "c2", <<>>),
      Event("ev4", sSync, StartAt(4), None, << attTranscript >>),
      Event("ev5", sPlan, BadStart, None, <<>>) }

MainMeetingPool ==
    { TldvMeeting("mt1", sRec, StartAt(1), "c1"),
      TldvMeeting("mt2", sRec, NoStart, "c1"),
      TldvMeeting("mt3", sRec, StartAt(2), None),
      TldvMeeting("mt4", sRec, StartAt(0), "c2") }

MainEventLists   == InjectiveSeqs(MainEventPool, MaxMainEvents) \ { <<>> }
MainMeetingLists == InjectiveSeqs(MainMeetingPool, MaxMainMeetings) \ { <<>> }

Max(S) == CHOOSE x \in S : \A y \in S : y <= x

\* lines 58 and 59: {conference ID: item}; of the items bearing one ID the
\* dict comprehension keeps the last
ByConfId(items) ==
    [c \in { items[i].conferenceId : i \in 1..Len(items) } \ { None } |->
        items[Max({ i \in 1..Len(items) : items[i].conferenceId = c })]]

\* line 61
ConfIdsToMatch(events_, meetings_) ==
    (DOMAIN ByConfId(events_)) \cap (DOMAIN ByConfId(meetings_))

\* the orders in which `for conf_id in conf_ids_to_match` can visit the set
IterationOrders(S) ==
    { o \in [1..Cardinality(S) -> S] :
        \A i, j \in 1..Cardinality(S) : i # j => o[i] # o[j] }

\* lines 62-63
ConfIdPairs(events_, meetings_, order) ==
    [k \in 1..Len(order) |->
        << ByConfId(events_)[order[k]], ByConfId(meetings_)[order[k]] >>]

\* lines 67 and 68: the items whose conference ID is not in conf_ids_to_match
WithoutConfIds(items, conf_ids) ==
    SelectSeq(items, LAMBDA x : x.conferenceId \notin conf_ids)

\* line 73: timedelta(minutes=5)
time_match_threshold == 5

\* lines 84-92: the place of the event nearest to the recording's start and
\* nearer than the threshold, the first of them if several are as near; 0 if none
NearestEvent(events_, tldv_start_time) ==
    LET near == { i \in 1..Len(events_) :
                    /\ events_[i].start.dateTime = "iso"
                    /\ Abs(tldv_start_time - events_[i].start.minute)
                          < time_match_threshold }
    IN  IF near = {} THEN 0
        ELSE Min({ i \in near :
                     \A k \in near :
                         Abs(tldv_start_time - events_[i].start.minute)
                            <= Abs(tldv_start_time - events_[k].start.minute) })

\* lines 75-101; raised: a datetime.fromisoformat call raised ValueError
RECURSIVE MatchByTimeProximity(_, _, _, _, _)
MatchByTimeProximity(tldv_, j, events_, matched_pairs, temp_unmatched_tldv) ==
    IF j > Len(tldv_)
    THEN [raised |-> FALSE, matched_pairs |-> matched_pairs,
          unmatched_events |-> events_, unmatched_tldv |-> temp_unmatched_tldv]
    ELSE LET tldv_meeting == tldv_[j]
         IN  IF tldv_meeting.recordingStartedAt = NoStart
             THEN MatchByTimeProximity(tldv_, j + 1, events_, matched_pairs,
                                       temp_unmatched_tldv)
             ELSE IF \/ tldv_meeting.recordingStartedAt = BadStart
                     \/ \E e \in Range(events_) : e.start = BadStart
             THEN [raised |-> TRUE, matched_pairs |-> matched_pairs,
                   unmatched_events |-> events_, unmatched_tldv |-> temp_unmatched_tldv]
             ELSE LET best == NearestEvent(events_, tldv_meeting.recordingStartedAt.minute)
                  IN  IF best = 0
                      THEN MatchByTimeProximity(tldv_, j + 1, events_, matched_pairs,
                                                Append(temp_unmatched_tldv, tldv_meeting))
                      ELSE MatchByTimeProximity(
                               tldv_, j + 1, RemoveFirst(events_, events_[best]),
                               Append(matched_pairs, << events_[best], tldv_meeting >>),
                               temp_unmatched_tldv)

\* lines 112-113, 121-122: a stripped, lower-cased keyword is in the lower-cased title
MainIsIgnored(event_name) ==
    \E k \in 1..Len(IGNORE_KEYWORDS) :
        Contains(Lower(Strip(IGNORE_KEYWORDS[k])), Lower(event_name))

\* f"Transcript for {event_name}" and f"AI Notes for {event_name}"
TitlePrefix(kind, event_name) ==
    (IF kind = "transcript" THEN TRANSCRIPT_PREFIX ELSE NOTES_PREFIX)
        \o <<" ">> \o event_name

\* datetime.now().strftime('%Y-%m-%d %H:%M'), the minute of the run
MainStamp == <<"0","9",":","0","0">>

\* f"{prefix} ({stamp})"
StampedTitle(title_prefix, stamp) == title_prefix \o <<" ","(">> \o stamp \o <<")">>

\* any(att.get('title', '').startswith(prefix) for att in event.get('attachments', []))
HasTitledAttachment(attachments, title_prefix) ==
    \E att \in Range(attachments) : StartsWith(att.title, title_prefix)

\* what get_transcript_by_meeting_id / get_highlights_by_meeting_id return:
\* None (a request error), {} , a body whose list of entries is empty, a body
\* with entries, a body with an entry whose time is not a number
TldvContents == { "None", "empty_dict", "no_entries", "entries", "malformed" }

\* format_transcript / format_highlights: the text for a body; "raise" when
\* int() of an entry's time raises
FormattedText(kind, data) ==
    CASE data = "malformed"  -> "raise"
      [] data = "no_entries" -> IF kind = "transcript" THEN "heading only"
                                ELSE "no highlights notice"
      [] OTHER               -> "heading and lines"

DigitChar(n) ==
    CASE n = 0 -> "0" [] n = 1 -> "1" [] n = 2 -> "2" [] n = 3 -> "3" [] n = 4 -> "4"
      [] n = 5 -> "5" [] n = 6 -> "6" [] n = 7 -> "7" [] n = 8 -> "8" [] OTHER -> "9"

\* the documentId the Docs API gives the n-th document
DocumentId(n) == <<"d", DigitChar(n)>>

\* a slip: the except branch returns the id of the document it had created
CreateGoogleDocKeepsId(docs_, doc_title, text, outcome) ==
    LET doc_id == DocumentId(Len(docs_) + 1)
    IN  CASE outcome = "create_error" ->
                [docs |-> docs_, doc_id |-> <<>>]
          [] outcome \in {"move_error", "insert_error"} ->
                [docs |-> Append(docs_, [id |-> doc_id, title |-> doc_title, text |-> ""]),
                 doc_id |-> doc_id]
          [] OTHER ->
                [docs |-> Append(docs_, [id |-> doc_id, title |-> doc_title, text |-> text]),
                 doc_id |-> doc_id]

\* create_google_doc: documents().create, the move into the shared drive (with
\* SHARED_DRIVE_ID set), the insertion of the text; any exception is caught and
\* None (<<>>) returned, the document created before it staying in the store
CreateGoogleDoc(docs_, doc_title, text, outcome) ==
    LET doc_id == DocumentId(Len(docs_) + 1)
    IN  CASE outcome = "create_error" ->
                [docs |-> docs_, doc_id |-> <<>>]
          [] outcome \in {"move_error", "insert_error"} ->
                [docs |-> Append(docs_, [id |-> doc_id, title |-> doc_title, text |-> ""]),
                 doc_id |-> <<>>]
          [] OTHER ->
                [docs |-> Append(docs_, [id |-> doc_id, title |-> doc_title, text |-> text]),
                 doc_id |-> doc_id]

\* share_file_publicly: << file_details >> with the file's name, or <<>> (None)
\* after an exception
ShareFilePublicly(docs_, file_id, outcome) ==
    IF outcome = "error" THEN <<>>
    ELSE << [name |-> (CHOOSE d \in Range(docs_) : d.id = file_id).title] >>

\* one call made while a pair is processed: what befell it and what it returned
MainCall(kind, op, outcome, result) ==
    [kind |-> kind, op |-> op, outcome |-> outcome, result |-> result]

\* what happens to one document kind of one pair: the body TLDV returns and the
\* outcomes of the three write steps
KindRun(data, create, share, attach) ==
    [data |-> data, create |-> create, share |-> share, attach |-> attach]

\* a write step is reached only with a body; the steps are failed one at a time
KindRuns ==
    { KindRun(data, "ok", "ok", "ok") : data \in TldvContents }
      \cup { KindRun("entries", create, "ok", "ok") :
               create \in {"create_error", "move_error", "insert_error"} }
      \cup { KindRun("entries", "ok", "error", "ok") }
      \cup { KindRun("entries", "ok", "ok", attach) :
               attach \in {"get_error", "patch_error"} }

\* lines 130-146 and 149-165: one document kind of one pair.  stored: the
\* event's attachments in the calendar; raised: an exception left the block
ProcessMainKind(event, stored, docs_, kind, run) ==
    LET title_prefix == TitlePrefix(kind, event.summary)
        fetched      == MainCall(kind, "get_content", "ok", run.data)
        text         == FormattedText(kind, run.data)
        created      == CreateGoogleDoc(docs_, StampedTitle(title_prefix, MainStamp),
                                        text, run.create)
        create_call  == MainCall(kind, "create_google_doc", run.create,
                                 IF created.doc_id = <<>> THEN "None" ELSE "doc_id")
        file_details == ShareFilePublicly(created.docs, created.doc_id, run.share)
        share_call   == MainCall(kind, "share_file_publicly", run.share,
                                 IF file_details = <<>> THEN "None" ELSE "file_details")
        attached     == AttachDocumentToEvent(stored, created.doc_id,
                                              file_details[1].name, run.attach)
        attach_call  == MainCall(kind, "attach_document_to_event", run.attach,
                                 attached.result)
    IN  IF run.data \in {"None", "empty_dict"}
        THEN [ops |-> << fetched >>, raised |-> FALSE, docs |-> docs_, stored |-> stored]
        ELSE IF HasTitledAttachment(event.attachments, title_prefix)
        THEN [ops |-> << fetched >>, raised |-> FALSE, docs |-> docs_, stored |-> stored]
        ELSE IF text = "raise"
        THEN [ops |-> << fetched >>, raised |-> TRUE, docs |-> docs_, stored |-> stored]
        ELSE IF created.doc_id = <<>>
        THEN [ops |-> << fetched, create_call >>, raised |-> FALSE,
              docs |-> created.docs, stored |-> stored]
        ELSE IF file_details = <<>>
        THEN [ops |-> << fetched, create_call, share_call >>, raised |-> FALSE,
              docs |-> created.docs, stored |-> stored]
        ELSE [ops |-> << fetched, create_call, share_call, attach_call >>,
              raised |-> FALSE, docs |-> created.docs, stored |-> attached.stored]

MainInit ==
    /\ OrchestratorOff /\ CleanupOff /\ ListingOff /\ ProvidersOff /\ AttachOff
    /\ mn_pc = "stage1"
    /\ mn_events \in MainEventLists
    /\ mn_meetings \in MainMeetingLists
    /\ mn_conf_ids = {}
    /\ mn_pairs = <<>>
    /\ mn_unmatched_events = mn_events
    /\ mn_unmatched_tldv = mn_meetings
    /\ mn_idx = 0
    /\ mn_docs = <<>>
    /\ mn_stored = [i \in 1..Len(mn_events) |-> mn_events[i].attachments]
    /\ mn_log = <<>>

mainRest == << orchestratorVars, cleanupVars, ls_call, pv_call, attachVars >>

\* lines 57-69: stage 1, match by conference ID
MainStage1(order) ==
    /\ mn_pc = "stage1"
    /\ mn_conf_ids' = ConfIdsToMatch(mn_unmatched_events, mn_unmatched_tldv)
    /\ order \in IterationOrders(mn_conf_ids')
    /\ mn_pairs' = ConfIdPairs(mn_unmatched_events, mn_unmatched_tldv, order)
    /\ mn_unmatched_events' = WithoutConfIds(mn_unmatched_events, mn_conf_ids')
    /\ mn_unmatched_tldv' = WithoutConfIds(mn_unmatched_tldv, mn_conf_ids')
    /\ mn_pc' = "stage2"
    /\ UNCHANGED << mn_events, mn_meetings, mn_idx, mn_docs, mn_stored, mn_log, mainRest >>

\* lines 71-106: stage 2, match by time proximity, and the return when there
\* is no pair; a ValueError is caught at line 170 and ends the run
MainStage2 ==
    /\ mn_pc = "stage2"
    /\ \E r \in { MatchByTimeProximity(mn_unmatched_tldv, 1, mn_unmatched_events,
                                        mn_pairs, <<>>) } :
          IF r.raised
          THEN /\ mn_pc' = "failed"
               /\ UNCHANGED << mn_pairs, mn_unmatched_events, mn_unmatched_tldv, mn_idx >>
          ELSE /\ mn_pairs' = r.matched_pairs
               /\ mn_unmatched_events' = r.unmatched_events
               /\ mn_unmatched_tldv' = r.unmatched_tldv
               /\ IF r.matched_pairs = <<>>
                  THEN mn_pc' = "done" /\ mn_idx' = mn_idx
                  ELSE mn_pc' = "processing" /\ mn_idx' = 1
    /\ UNCHANGED << mn_events, mn_meetings, mn_conf_ids, mn_docs, mn_stored, mn_log,
                    mainRest >>

\* the calls of a document kind, as the log keeps them
Logged(ops, pair) ==
    [n \in 1..Len(ops) |->
        [pair |-> pair, kind |-> ops[n].kind, op |-> ops[n].op,
         outcome |-> ops[n].outcome, result |-> ops[n].result]]

\* lines 116-146: an iteration of the pair loop up to the end of the
\* transcript block; an ignored pair is skipped (line 124), an exception of the
\* block is caught at line 167 and the loop goes to the next pair
MainProcessTranscript(run) ==
    /\ mn_pc = "processing"
    /\ mn_idx <= Len(mn_pairs)
    /\ \E event \in { mn_pairs[mn_idx][1] } :
       \E i \in { k \in 1..Len(mn_events) : mn_events[k].id = event.id } :
          IF MainIsIgnored(event.summary)
          THEN /\ mn_log' = <<>>
               /\ mn_idx' = mn_idx + 1
               /\ UNCHANGED << mn_pc, mn_docs, mn_stored >>
          ELSE \E r \in { ProcessMainKind(event, mn_stored[i], mn_docs,
                                           "transcript", run) } :
                  /\ mn_docs' = r.docs
                  /\ mn_stored' = [mn_stored EXCEPT ![i] = r.stored]
                  /\ mn_log' = Logged(r.ops, mn_idx)
                  /\ IF r.raised
                     THEN mn_pc' = mn_pc /\ mn_idx' = mn_idx + 1
                     ELSE mn_pc' = "notes" /\ mn_idx' = mn_idx
    /\ UNCHANGED << mn_events, mn_meetings, mn_conf_ids, mn_pairs,
                    mn_unmatched_events, mn_unmatched_tldv, mainRest >>

\* lines 148-168: the notes block of the iteration, and the end of the iteration
MainProcessNotes(run) ==
    /\ mn_pc = "notes"
    /\ \E event \in { mn_pairs[mn_idx][1] } :
       \E i \in { k \in 1..Len(mn_events) : mn_events[k].id = event.id } :
       \E r \in { ProcessMainKind(event, mn_stored[i], mn_docs, "notes", run) } :
           /\ mn_docs' = r.docs
           /\ mn_stored' = [mn_stored EXCEPT ![i] = r.stored]
           /\ mn_log' = mn_log \o Logged(r.ops, mn_idx)
    /\ mn_pc' = "processing"
    /\ mn_idx' = mn_idx + 1
    /\ UNCHANGED << mn_events, mn_meetings, mn_conf_ids, mn_pairs,
                    mn_unmatched_events, mn_unmatched_tldv, mainRest >>

\* line 173: the pair loop is over
MainFinish ==
    /\ mn_pc = "processing"
    /\ mn_idx > Len(mn_pairs)
    /\ mn_pc' = "done"
    /\ UNCHANGED << mn_events, mn_meetings, mn_conf_ids, mn_pairs, mn_unmatched_events,
                    mn_unmatched_tldv, mn_idx, mn_docs, mn_stored, mn_log, mainRest >>

MainNext ==
    \/ \E order \in UNION { IterationOrders(S) : S \in SUBSET {"c1", "c2"} } :
          MainStage1(order)
    \/ MainStage2
    \/ \E run \in KindRuns : MainProcessTranscript(run)
    \/ \E run \in KindRuns : MainProcessNotes(run)
    \/ MainFinish

MainSpec == MainInit /\ [][MainNext]_vars

(***************************************************************************)
(* Properties.                                                             *)
(***************************************************************************)
\* the pairs match_events_and_meetings has accumulated so far
PairsSoFar == all_matches \o (IF pc = "stage3" THEN ai_matches ELSE <<>>)

\* C1: the pairs of match_events_and_meetings, with force_ai on or off, hold no
\* event id twice and no recording id twice.
C1_Bijective ==
    \A i, j \in 1..Len(PairsSoFar) :
        i # j => /\ PairsSoFar[i][1].id # PairsSoFar[j][1].id
                 /\ PairsSoFar[i][2].id # PairsSoFar[j][2].id

\* C1 witness: a returned list of two pairs, one of them found by the AI stage
C1_Witness ==
    /\ pc = "matched"
    /\ Len(all_matches) >= 2
    /\ ai_matches # <<>>
    /\ stage2_matches # <<>>

\* the conference ID a recording carries: the one in its provider payload
CarriedConferenceId(meeting) == meeting.payload_conf

\* C3: after stage 1 has run, an event and a recording that carry the same
\* non-empty conference ID (borne by no other event or recording) are a pair
\* of stage 1.
C3_SharedConferenceIdPairsInStage1 ==
    (pc \in {"stage2", "stage3_gate", "stage3", "matched", "processing", "done"}
       /\ ~force_ai)
    => \A i \in 1..Len(events), j \in 1..Len(meetings) :
          ( /\ events[i].conferenceId # None
            /\ CarriedConferenceId(meetings[j]) = events[i].conferenceId
            /\ \A k \in 1..Len(events) :
                  k # i => events[k].conferenceId # events[i].conferenceId
            /\ \A k \in 1..Len(meetings) :
                  k # j => CarriedConferenceId(meetings[k]) # events[i].conferenceId )
          => << events[i], meetings[j] >> \in Range(stage1_matches)

\* match_events_and_meetings has returned its list
MatchingReturned ==
    \/ pc \in {"matched", "processing"}
    \/ pc \in {"done", "crashed"} /\ meetings # <<>> /\ crash_site # "_match_by_time_and_title"

\* C7: with the AI matcher disabled the completion service is never called,
\* stage 3 adds no pair, the returned list is the pairs of stages 1 and 2, and
\* what stage 2 left unmatched is still unmatched when the matching returns.
C7_DisabledAIAddsNothing ==
    ~ai_enabled =>
        /\ ai_calls = 0
        /\ ai_matches = <<>>
        /\ crash_site # "_match_by_ai"
        /\ MatchingReturned =>
              /\ all_matches = stage1_matches \o stage2_matches
              /\ Len(unmatched_events) = Len(events) - Len(all_matches)
              /\ Len(unmatched_meetings) = Len(meetings) - Len(all_matches)
              /\ \A i \in 1..Len(events) :
                    events[i] \in Range(unmatched_events)
                       \/ \E p \in Range(all_matches) : p[1] = events[i]
              /\ \A j \in 1..Len(meetings) :
                    meetings[j] \in Range(unmatched_meetings)
                       \/ \E p \in Range(all_matches) : p[2] = meetings[j]

\* C7 witness: the disabled matcher was asked about a recording that has raw
\* content while an event was unmatched, and the matching has returned
C7_Witness ==
    /\ ~ai_enabled
    /\ pc = "matched"
    /\ ai_idx > 1
    /\ unmatched_events # <<>>
    /\ \E m \in Range(unmatched_meetings) : m.raw_content

\* the integer a response text denotes, for the texts the completion service
\* answers with in this model
DenotedIndex(text) ==
    CASE text = <<"0">>          -> [integer |-> TRUE, val |-> 0]
      [] text = <<" ","1","\n">> -> [integer |-> TRUE, val |-> 1]
      [] text = <<"+","1">>      -> [integer |-> TRUE, val |-> 1]
      [] text = <<"2">>          -> [integer |-> TRUE, val |-> 2]
      [] text = <<"-","1">>      -> [integer |-> TRUE, val |-> 0 - 1]
      [] OTHER                   -> [integer |-> FALSE, val |-> 0]

\* C9: match_meeting_to_event returns candidates[i] exactly when the trimmed
\* response is the integer i with 0 <= i < len(candidates); 'none' in any case,
\* other text, an index out of range and a failed completion give no match.
C9_OnlyValidIndexMatches ==
    ai_last.made =>
        LET d == DenotedIndex(ai_last.text)
            n == Len(ai_last.candidates)
            valid == /\ ai_last.called
                     /\ ai_last.kind = "text"
                     /\ d.integer
                     /\ 0 <= d.val /\ d.val < n
        IN  /\ valid => ai_last.result = << ai_last.candidates[d.val + 1] >>
            /\ ~valid => ai_last.result = <<>>

\* C9 witness: the answer " 1\n" picked the second of at least two candidates
C9_Witness ==
    /\ ai_last.made
    /\ ai_last.called
    /\ ai_last.text = <<" ","1","\n">>
    /\ Len(ai_last.candidates) >= 2
    /\ ai_last.result = << ai_last.candidates[2] >>

\* C10: when authentication fails (False or an exception) run_cli ends at once:
\* no event is listed, no recording fetched, no stage run, no pair processed.
C10_AuthFailureStopsRun ==
    auth_result \in {"False", "raise"} =>
        /\ pc \in {"done", "crashed"}
        /\ events = <<>>
        /\ meetings = <<>>
        /\ all_matches = <<>>
        /\ ai_idx = 0
        /\ ai_calls = 0
        /\ proc_idx = 0
        /\ op_log = <<>>
        /\ docs = {}

\* C10 witness: authenticate returned False and run_cli has returned
C10_Witness ==
    /\ auth_result = "False"
    /\ pc = "done"
    /\ calendar # <<>>

\* the pair the latest process_attachment call was given, 0 before the first
ProcessedIdx ==
    IF pc = "crashed" /\ crash_site \in {"get_transcript", "create_and_attach_google_doc"}
    THEN proc_idx
    ELSE IF pc \in {"processing", "done"} /\ proc_idx >= 1 THEN proc_idx - 1
    ELSE 0

KindPrefix(kind) == IF kind = "transcript" THEN TRANSCRIPT_PREFIX ELSE NOTES_PREFIX

\* the document kinds process_attachment would write when given the pair again,
\* not in dry-run, with the recording's text available
KindsWrittenOnReprocessing(event, meeting) ==
    LET again == ProcessAttachment(event, meeting, FALSE, "text", "text")
    IN  { again.ops[i].kind : i \in { k \in 1..Len(again.ops) :
                                        again.ops[k].op = "create_and_attach_google_doc" } }

\* C2: once process_attachment has issued the creation of a document of one
\* kind for an event, processing the pair again, with the event's attachment
\* titles being those it had plus the title of that document, does not issue
\* the creation of a document of that kind again.
C2_ReprocessingCreatesNoSecondDocument ==
    \A i \in 1..Len(op_log) :
        op_log[i].op = "create_and_attach_google_doc" =>
            LET pair  == all_matches[op_log[i].pair]
                after == [pair[1] EXCEPT !.attachments = Append(@, op_log[i].title)]
            IN  op_log[i].kind \notin KindsWrittenOnReprocessing(after, pair[2])

\* the title holds a keyword, compared letter by letter without regard to case
TitleHoldsKeyword(title) ==
    \E k \in 1..Len(IGNORE_KEYWORDS) :
        \E off \in 0..(Len(title) - Len(IGNORE_KEYWORDS[k])) :
            \A c \in 1..Len(IGNORE_KEYWORDS[k]) :
                LowerChar(title[off + c]) = LowerChar(IGNORE_KEYWORDS[k][c])

\* C4: processing a pair whose event title holds an ignore keyword, in any
\* letter case, makes no connector or GoogleApi call; a pair whose title holds
\* none is processed: lacking a transcript attachment, its transcript is fetched.
C4_IgnoredPairMakesNoCall ==
    ProcessedIdx >= 1 =>
        LET event == all_matches[ProcessedIdx][1]
        IN  /\ TitleHoldsKeyword(event.summary) => op_log = <<>>
            /\ ( /\ ~TitleHoldsKeyword(event.summary)
                 /\ ~HasAttachment(event.attachments, TRANSCRIPT_PREFIX) )
               => /\ op_log # <<>>
                  /\ op_log[1].op = "get_transcript"
                  /\ op_log[1].kind = "transcript"

\* C4 witness: the pair of the event 'Catch-Up' (keyword 'catch-up') was
\* processed, not in dry-run, and nothing was called
C4_Witness ==
    /\ ProcessedIdx >= 1
    /\ all_matches[ProcessedIdx][1].summary = sCatchUp
    /\ ~dry_run
    /\ op_log = <<>>
    /\ pc \in {"processing", "done"}

\* C5: no failure of a pair's processing (a content fetch or a document
\* creation that raises) leaves the pair loop of run_cli.
C5_PairFailureStaysInLoop ==
    crash_site \notin {"get_transcript", "create_and_attach_google_doc"}

\* C6: in dry-run mode no pair's processing calls the document creation and
\* attachment, and the document store and the calendar's attachment lists
\* stay as they were when the events were listed.
C6_DryRunWritesNothing ==
    dry_run =>
        /\ \A i \in 1..Len(op_log) : op_log[i].op = "get_transcript"
        /\ docs = {}
        /\ events # <<>> => calendar = events

\* C6 witness: a dry run has ended after a pair with neither attachment had
\* its text fetched for both kinds
C6_Witness ==
    /\ dry_run
    /\ pc = "done"
    /\ Len(op_log) = 2
    /\ op_log[1].result = "text" /\ op_log[1].kind = "transcript"
    /\ op_log[2].result = "text" /\ op_log[2].kind = "notes"

\* the title of the document process_attachment writes for a kind
DocTitle(kind, pair) ==
    IF kind = "transcript" THEN TranscriptDocTitle(pair[1].summary)
    ELSE NotesDocTitle(pair[2].name)

\* the attachment titles the calendar holds for an event
AttachmentsOf(event_id) ==
    LET i == CHOOSE k \in 1..Len(calendar) : calendar[k].id = event_id
    IN  calendar[i].attachments

OtherKind(kind) == IF kind = "transcript" THEN "notes" ELSE "transcript"

\* C8: when a processed pair, not ignored and not in dry-run, has an attachment
\* with one kind's prefix and none with the other's, and the recording has
\* text, the other kind's document is in the document store and attached to
\* the event once the pair's processing is over.
C8_OtherKindStillWritten ==
    (ProcessedIdx >= 1 /\ ~dry_run) =>
        LET pair  == all_matches[ProcessedIdx]
            event == pair[1]
        IN  \A kind \in {"transcript", "notes"} :
               ( /\ ~IsIgnored(event.summary)
                 /\ HasAttachment(event.attachments, KindPrefix(OtherKind(kind)))
                 /\ ~HasAttachment(event.attachments, KindPrefix(kind))
                 /\ \E i \in 1..Len(op_log) :
                       /\ op_log[i].op = "get_transcript"
                       /\ op_log[i].kind = kind
                       /\ op_log[i].result = "text" )
               => /\ DocTitle(kind, pair) \in docs
                  /\ DocTitle(kind, pair) \in Range(AttachmentsOf(event.id))

\* the cleanup script has changed neither the document store nor the calendar
CleanupTouchedNothing ==
    /\ cl_calls = <<>>
    /\ cl_drive = FileIdsOf(cl_calendar)
    /\ cl_events # <<>> => cl_calendar = cl_events

\* C11, as amended: in dry-run mode, before the prompt, and after any answer
\* other than 'y' or 'Y', the cleanup script has called neither
\* delete_google_doc nor remove_attachment_from_event, and the document store
\* and the calendar are as they were.
C11_NoDeletionUnlessConfirmed ==
    (cl_args.dry_run \/ cl_confirm \notin { <<"y">>, <<"Y">> }) => CleanupTouchedNothing

\* C11 witness: a run that is not a dry run listed items, the user answered
\* 'yes', and the script ended without a call
C11_Witness ==
    /\ cl_pc = "done"
    /\ ~cl_args.dry_run
    /\ cl_items # <<>>
    /\ cl_confirm = <<"y","e","s">>
    /\ cl_calls = <<>>

\* C11 as stated: on any answer other than 'y' no delete and no attachment
\* removal is performed.
C11_NoDeletionUnlessLowerCaseY ==
    (cl_args.dry_run \/ cl_confirm # <<"y">>) => cl_calls = <<>>

\* the title begins with the prefix, compared character by character
BeginsWith(title, prefix) ==
    /\ Len(title) >= Len(prefix)
    /\ \A c \in 1..Len(prefix) : title[c] = prefix[c]

\* the attachments the calendar now holds for an event
CleanupAttachmentsNow(event_id) ==
    LET i == CHOOSE k \in 1..Len(cl_calendar) : cl_calendar[k].id = event_id
    IN  Range(cl_calendar[i].attachments)

\* C12: every item selected, and every delete or removal made, is for an
\* attachment of the listed event whose title starts with the prefix and whose
\* URL yields that file id; an attachment whose title does not start with the
\* prefix keeps its file and stays attached.
C12_OnlyPrefixedAttachmentsCleaned ==
    /\ \A k \in 1..Len(cl_items) :
          \E i \in 1..Len(cl_events) :
              /\ cl_events[i].id = cl_items[k].event_id
              /\ \E att \in Range(cl_events[i].attachments) :
                    /\ att.title = cl_items[k].attachment_title
                    /\ BeginsWith(att.title, cl_args.prefix)
                    /\ cl_items[k].file_id # <<>>
                    /\ att.fileUrl = DocUrl(cl_items[k].file_id)
    /\ \A k \in 1..Len(cl_calls) :
          /\ BeginsWith(cl_calls[k].title, cl_args.prefix)
          /\ \E n \in 1..Len(cl_items) :
                /\ cl_items[n].event_id = cl_calls[k].event_id
                /\ cl_items[n].attachment_title = cl_calls[k].title
                /\ cl_items[n].file_id = cl_calls[k].file_id
    /\ \A i \in 1..Len(cl_events) :
          \A att \in Range(cl_events[i].attachments) :
              ~BeginsWith(att.title, cl_args.prefix) =>
                  /\ att \in CleanupAttachmentsNow(cl_events[i].id)
                  /\ FileIdOf(att.fileUrl) # <<>> => FileIdOf(att.fileUrl) \in cl_drive

\* C12 witness: the cleanup has ended; the transcript of an event was deleted
\* and detached, and the agenda attached to the same event is still there
C12_Witness ==
    /\ cl_pc = "done"
    /\ cl_args.prefix = TRANSCRIPT_PREFIX
    /\ \E i \in 1..Len(cl_events) :
          /\ attTranscript \in Range(cl_events[i].attachments)
          /\ attAgenda \in Range(cl_events[i].attachments)
          /\ attTranscript \notin CleanupAttachmentsNow(cl_events[i].id)
          /\ attAgenda \in CleanupAttachmentsNow(cl_events[i].id)
    /\ <<"f","1">> \notin cl_drive
    /\ <<"f","3">> \in cl_drive

\* the place of the item with this id in the list
PlaceOf(id, items) == CHOOSE k \in 1..Len(items) : items[k].id = id

\* C13: every event get_concluded_events returns is an item of the calendar's
\* answer with an end dateTime strictly before the time of the call, so items
\* without an end dateTime or ending at or after that time are left out, and
\* the returned events are in the order the calendar supplied them.
C13_ConcludedOnlyInOrder ==
    ls_call.made =>
        /\ \A k \in 1..Len(ls_call.result) :
              /\ ls_call.result[k] \in Range(ls_call.items)
              /\ ls_call.result[k].end.dateTime = "iso"
              /\ ls_call.result[k].end.minute + 1 <= ls_call.now
        /\ \A k, n \in 1..Len(ls_call.result) :
              k < n => PlaceOf(ls_call.result[k].id, ls_call.items)
                          < PlaceOf(ls_call.result[n].id, ls_call.items)

\* C13 witness: of three items, given latest end first, the two that had ended
\* were returned and the one ending at the time of the call was not
C13_Witness ==
    /\ ls_call.made
    /\ ls_call.now = 3
    /\ Len(ls_call.items) = 3
    /\ ls_call.items[1].end = StartAt(3)
    /\ Len(ls_call.result) = 2
    /\ ls_call.result[1].end = StartAt(2)
    /\ ls_call.result[2].end = StartAt(1)

\* the provider a name of the setting stands for, "" if none
ConfiguredProvider(name) ==
    IF name \in { sTldv, <<" ">> \o sTldv } THEN "tldv"
    ELSE IF name = sFireflies THEN "fireflies"
    ELSE ""

\* the meetings the k-th configured provider has: those its listing returned,
\* none when it is not a known provider, did not load, raised or returned none
RECURSIVE ProviderMeetingsFrom(_)
ProviderMeetingsFrom(k) ==
    IF k > Len(pv_call.provider_names) THEN <<>>
    ELSE LET provider == ConfiguredProvider(pv_call.provider_names[k])
             listed   == ListedMeetings(pv_call.listings[k])
         IN  (IF provider # "" /\ pv_call.imported[k]
              THEN [i \in 1..Len(listed) |-> [id |-> listed[i].id, source |-> provider]]
              ELSE <<>>)
             \o ProviderMeetingsFrom(k + 1)

\* the sources as strings
SourceName(source) ==
    IF source = sTldv THEN "tldv" ELSE IF source = sFireflies THEN "fireflies" ELSE ""

\* C14: get_all_meetings returns the meetings of every enabled provider, in the
\* configured order, each tagged with its provider's name; a provider that did
\* not load, raised or listed nothing adds nothing and stops nothing.
C14_AllProvidersMeetingsReturned ==
    pv_call.made =>
        [i \in 1..Len(pv_call.result) |->
            [id |-> pv_call.result[i].id, source |-> SourceName(pv_call.result[i].source)]]
        = ProviderMeetingsFrom(1)

\* how many attachments of the list bear the title
TitleCount(attachments, title) ==
    Cardinality({ i \in 1..Len(attachments) : attachments[i].title = title })

\* C15: a call whose title is the title of an attachment it read issues no
\* patch and returns None; a call with a new title patches with all the
\* attachments it read plus one with that title and the document's URL; after
\* a call has attached a title, further calls leave exactly one attachment
\* with that title, and no title the calls use is ever attached twice.
C15_AttachIdempotentByTitle ==
    /\ \A k \in 1..Len(at_calls) :
          LET call == at_calls[k]
              present == TitleCount(call.read, call.file_title) > 0
          IN  /\ (call.got /\ present) => (~call.patched /\ call.result = "None")
              /\ (call.got /\ ~present) =>
                    /\ call.patched
                    /\ Len(call.body) = Len(call.read) + 1
                    /\ SubSeq(call.body, 1, Len(call.read)) = call.read
                    /\ call.body[Len(call.body)].title = call.file_title
                    /\ FileIdOf(call.body[Len(call.body)].fileUrl) = call.file_id
              /\ call.result = "True" => TitleCount(at_attachments, call.file_title) = 1
    /\ \A title \in AttachTitles : TitleCount(at_attachments, title) <= 1

\* C15 witness: two successive calls with the same file details; the first
\* attached the document, the second patched nothing and returned None
C15_Witness ==
    /\ Len(at_calls) >= 2
    /\ at_calls[1].file_title = attNotes.title
    /\ at_calls[2].file_title = attNotes.title
    /\ at_calls[1].file_id = at_calls[2].file_id
    /\ at_calls[1].result = "True"
    /\ at_calls[2].got /\ ~at_calls[2].patched /\ at_calls[2].result = "None"
    /\ Len(at_calls[1].read) = 2
    /\ TitleCount(at_attachments, attNotes.title) = 1

\* the events and the recordings stage 1 left for stage 2, in input order
EnteringStage2Events ==
    SelectSeq(events, LAMBDA e : \A p \in Range(stage1_matches) : p[1].id # e.id)

EnteringStage2Meetings ==
    SelectSeq(meetings, LAMBDA m : \A p \in Range(stage1_matches) : p[2].id # m.id)

\* the title and the name are equal letter by letter, whatever the case
SameTitle(summary, name) ==
    /\ Len(summary) = Len(name)
    /\ \A c \in 1..Len(summary) : LowerChar(summary[c]) = LowerChar(name[c])

\* the recording meets the stage-2 rule for the event
Fits(event, meeting) ==
    /\ event.start.dateTime = "iso"
    /\ SameTitle(event.summary, meeting.name)
    /\ event.start.minute - meeting.start_time < 5
    /\ meeting.start_time - event.start.minute < 5

\* the ids of the recordings stage 2 paired with events before the i-th
PairedBefore(i) ==
    { p[2].id : p \in { q \in Range(stage2_matches) :
                          \E k \in 1..(i - 1) : EnteringStage2Events[k].id = q[1].id } }

\* the places of the recordings the i-th event could still be paired with
OpenFits(i) ==
    { j \in 1..Len(EnteringStage2Meetings) :
        /\ EnteringStage2Meetings[j].id \notin PairedBefore(i)
        /\ Fits(EnteringStage2Events[i], EnteringStage2Meetings[j]) }

\* stage 2 has just returned
Stage2Returned == pc = "stage3_gate" /\ ~force_ai

\* C16: when stage 2 returns, each event it was given is paired with the first
\* recording, in input order, that is not paired with an earlier event, has the
\* event's title in any letter case and starts less than 5 minutes from it; an
\* event with no such recording is unmatched; the pairs are in event order.
C16_Stage2FirstFit ==
    Stage2Returned =>
        /\ \A i \in 1..Len(EnteringStage2Events) :
              LET event == EnteringStage2Events[i]
              IN  IF OpenFits(i) = {}
                  THEN /\ event \in Range(unmatched_events)
                       /\ \A p \in Range(stage2_matches) : p[1].id # event.id
                  ELSE /\ event \notin Range(unmatched_events)
                       /\ \A j \in OpenFits(i) :
                             (\A n \in OpenFits(i) : j <= n)
                                => << event, EnteringStage2Meetings[j] >>
                                       \in Range(stage2_matches)
        /\ Len(stage2_matches) + Len(unmatched_events) = Len(EnteringStage2Events)
        /\ \A k, n \in 1..Len(stage2_matches) :
              k < n => \E a, b \in 1..Len(EnteringStage2Events) :
                          /\ a < b
                          /\ EnteringStage2Events[a] = stage2_matches[k][1]
                          /\ EnteringStage2Events[b] = stage2_matches[n][1]

\* C16 witness: the first recording starts exactly 5 minutes from the event and
\* is passed over; the second, 4 minutes away, is paired with the first event,
\* and the second event of the same title stays unmatched
C16_Witness ==
    /\ Stage2Returned
    /\ Len(events) = 2 /\ Len(meetings) = 2
    /\ events[1].start = StartAt(0)
    /\ meetings[1].start_time = 5 /\ SameTitle(events[1].summary, meetings[1].name)
    /\ meetings[2].start_time = 4
    /\ stage2_matches = << << events[1], meetings[2] >> >>
    /\ unmatched_events = << events[2] >>
    /\ SameTitle(events[2].summary, meetings[2].name)
    /\ unmatched_meetings = << meetings[1] >>

\* C17: stage 2 raises no error; an event without a start dateTime, or with
\* one that does not parse, is not paired by stage 2 and is still unmatched
\* when stage 2 returns.
C17_UnparsableStartSkipped ==
    /\ crash_site # "_match_by_time_and_title"
    /\ Stage2Returned =>
          \A i \in 1..Len(EnteringStage2Events) :
              EnteringStage2Events[i].start.dateTime # "iso" =>
                  /\ EnteringStage2Events[i] \in Range(unmatched_events)
                  /\ \A p \in Range(stage2_matches) : p[1].id # EnteringStage2Events[i].id

\* the ids of the events and of the recordings in a list of pairs
EventIdsIn(pairs) == { p[1].id : p \in Range(pairs) }
MeetingIdsIn(pairs) == { p[2].id : p \in Range(pairs) }

\* C18: stage 2 starts only when stage 1 is over and stage 3 only when stage 2
\* is over (or both were skipped by force_ai), and each stage is given exactly
\* the events and recordings the earlier stages did not pair.
C18_StagesInOrderOnRemainingPools ==
    /\ pc = "match" =>
          /\ stage1_matches = <<>> /\ stage2_matches = <<>>
          /\ ai_matches = <<>> /\ ai_idx = 0
          /\ unmatched_events = events /\ unmatched_meetings = meetings
    /\ pc = "stage2" =>
          /\ stage2_matches = <<>> /\ ai_matches = <<>> /\ ai_idx = 0
          /\ all_matches = stage1_matches
          /\ unmatched_events = EnteringStage2Events
          /\ unmatched_meetings = EnteringStage2Meetings
    /\ pc = "stage3" =>
          /\ all_matches = stage1_matches \o stage2_matches
          /\ force_ai => all_matches = <<>>
          /\ unmatched_meetings =
                SelectSeq(meetings, LAMBDA m : m.id \notin MeetingIdsIn(all_matches))
          /\ unmatched_events =
                SelectSeq(events, LAMBDA e : e.id \notin EventIdsIn(all_matches)
                                             /\ e.id \notin EventIdsIn(ai_matches))

\* C18 witness: stage 3 is at work on what stage 1, which paired an event and
\* a recording, and stage 2 left over
C18_Witness ==
    /\ pc = "stage3"
    /\ ~force_ai
    /\ stage1_matches # <<>>
    /\ ai_idx = 2
    /\ ai_calls = 1

\* C19: in one run a pair's processing asks for at most one document of each
\* kind, and no event is processed in two pairs, so that no event gets more
\* than one document, or more than one attachment, of a kind.
C19_AtMostOneDocumentPerEventAndKind ==
    /\ \A kind \in {"transcript", "notes"} :
          Cardinality({ i \in 1..Len(op_log) :
                          /\ op_log[i].op = "create_and_attach_google_doc"
                          /\ op_log[i].kind = kind }) <= 1
    /\ \A i, j \in 1..ProcessedIdx :
          i # j => all_matches[i][1].id # all_matches[j][1].id
    /\ Cardinality(docs) <= 2 * Len(events)

\* C19 witness: the second pair of a run is processed and a document is asked
\* for, after the first pair's recording had no text
C19_Witness ==
    /\ ProcessedIdx = 2
    /\ \E i \in 1..Len(op_log) : op_log[i].op = "create_and_attach_google_doc"

\* C20: while stage 3 runs and after it, the completion calls made are no more
\* than the recordings attempted, each recording stage 3 was given is
\* attempted at most once and ends either matched or still unmatched.
C20_OneAIAttemptPerRecording ==
    /\ ai_calls <= Len(ai_matches) + Len(still_unmatched_meetings)
    /\ pc = "stage3" =>
          /\ ai_idx - 1 <= Len(unmatched_meetings)
          /\ Len(ai_matches) + Len(still_unmatched_meetings) = ai_idx - 1
          /\ MeetingIdsIn(ai_matches) \cup { m.id : m \in Range(still_unmatched_meetings) }
                = { unmatched_meetings[k].id : k \in 1..(ai_idx - 1) }
    /\ Cardinality(MeetingIdsIn(ai_matches) \cup
                   { m.id : m \in Range(still_unmatched_meetings) })
          = Len(ai_matches) + Len(still_unmatched_meetings)

\* C20 witness: stage 3 has returned after two recordings were each submitted
\* once, one matched and one not
C20_Witness ==
    /\ pc = "matched"
    /\ ai_calls = 2
    /\ Len(ai_matches) = 1
    /\ Len(still_unmatched_meetings) = 1

\* C21: when the completion call raises while stage 3 attempts a recording, the
\* recording joins the still-unmatched ones, the pairs found so far and the
\* event pool stay as they are, no error leaves the stage, and the loop moves
\* to the next recording; when stage 3 returns, every recording it was given
\* has been attempted.
C21_CompletionFailureIsNoMatch ==
    /\ [](crash_site # "_match_by_ai")
    /\ []((pc = "matched" /\ ai_idx > 0) =>
            Len(ai_matches) + Len(still_unmatched_meetings)
               = Len(meetings) - Len(stage1_matches) - Len(stage2_matches))
    /\ [][ (pc = "stage3" /\ ai_idx' # ai_idx /\ ai_last'.kind = "raise") =>
             /\ pc' = "stage3"
             /\ ai_idx' = ai_idx + 1
             /\ ai_matches' = ai_matches
             /\ all_matches' = all_matches
             /\ unmatched_events' = unmatched_events
             /\ still_unmatched_meetings'
                   = Append(still_unmatched_meetings, unmatched_meetings[ai_idx]) ]_vars

\* C21 witness: the first recording was paired by the AI, the completion call
\* for the second raised, and the second is the only still-unmatched recording
C21_Witness ==
    /\ pc = "stage3"
    /\ ai_idx = 3
    /\ ai_calls = 2
    /\ ai_last.kind = "raise"
    /\ Len(ai_matches) = 1
    /\ ai_matches[1][2] = unmatched_meetings[1]
    /\ still_unmatched_meetings = << unmatched_meetings[2] >>

\* the calls the latest pair's processing made for one document kind
KindCalls(kind) == SelectSeq(mn_log, LAMBDA c : c.kind = kind)

\* the steps of one document kind, in the order of the code
KindSteps ==
    << "get_content", "create_google_doc", "share_file_publicly",
       "attach_document_to_event" >>

\* C22: the calls made for one document kind of a pair are the first steps of
\* content, create, share, attach, in that order; after a failed creation
\* neither share nor attach is called, after a failed share attach is not
\* called; a failed write step of the transcript does not keep the notes from
\* being processed, and the pair loop goes on to the next pair.
C22_FailedStepStopsChain ==
    /\ \A kind \in {"transcript", "notes"} :
          LET calls == KindCalls(kind)
          IN  /\ Len(calls) <= 4
              /\ \A n \in 1..Len(calls) : calls[n].op = KindSteps[n]
              /\ \A n \in 2..Len(calls) :
                    \A k \in 2..(n - 1) : calls[k].outcome = "ok"
    /\ (KindCalls("transcript") # <<>> /\ mn_pc # "notes"
           /\ \E n \in 2..Len(KindCalls("transcript")) :
                 KindCalls("transcript")[n].outcome # "ok")
          => KindCalls("notes") # <<>>
    /\ mn_log # <<>> =>
          /\ mn_pc \in {"notes", "processing", "done"}
          /\ mn_idx = mn_log[1].pair + (IF mn_pc = "notes" THEN 0 ELSE 1)
    /\ (mn_pc = "done" /\ mn_pairs # <<>>) => mn_idx = Len(mn_pairs) + 1

\* C22 witness: in the first pair a document was created and not shared; in
\* the second pair the transcript's share step failed, so that no attach was
\* called for it, and the notes were created, shared and attached
C22_Witness ==
    /\ mn_log # <<>>
    /\ mn_log[1].pair = 2
    /\ Len(mn_docs) = 3
    /\ \A i \in 1..Len(mn_stored) :
          \A att \in Range(mn_stored[i]) : FileIdOf(att.fileUrl) # DocumentId(1)
    /\ Len(KindCalls("transcript")) = 3
    /\ KindCalls("transcript")[3].outcome = "error"
    /\ Len(KindCalls("notes")) = 4
    /\ KindCalls("notes")[4].result = "True"

SharedConfIds ==
    ({ e.conferenceId : e \in Range(mn_events) }
        \cap { m.conferenceId : m \in Range(mn_meetings) }) \ { None }

\* C25: when stage 1 of main.main is over, there is exactly one pair for each
\* conference ID borne on both sides, made of an event and a recording with
\* that ID, and every event and every recording that is no longer in its
\* unmatched pool is a member of a pair.
C25_ConfIdStageRemovesOnlyPaired ==
    mn_pc = "stage2" =>
        /\ Len(mn_pairs) = Cardinality(SharedConfIds)
        /\ \A c \in SharedConfIds :
              \E k \in 1..Len(mn_pairs) :
                  /\ mn_pairs[k][1].conferenceId = c
                  /\ mn_pairs[k][2].conferenceId = c
                  /\ mn_pairs[k][1] \in Range(mn_events)
                  /\ mn_pairs[k][2] \in Range(mn_meetings)
        /\ \A e \in Range(mn_events) :
              e \notin Range(mn_unmatched_events)
                 => \E k \in 1..Len(mn_pairs) : mn_pairs[k][1] = e
        /\ \A m \in Range(mn_meetings) :
              m \notin Range(mn_unmatched_tldv)
                 => \E k \in 1..Len(mn_pairs) : mn_pairs[k][2] = m

\* the calls of this run made for the item at place n of items_to_clean
SameItem(call, item) ==
    /\ call.event_id = item.event_id
    /\ call.title = item.attachment_title
    /\ call.file_id = item.file_id

\* the places in cl_calls of the delete_google_doc calls
DeleteCallPlaces == { k \in 1..Len(cl_calls) : cl_calls[k].op = "delete_google_doc" }

\* C26: in the deletion loop every remove_attachment_from_event call comes
\* right after a delete_google_doc call for the same item that returned True,
\* and every delete that returned True (a 404 returns True) is followed by the
\* removal; success_count is the number of items for which both calls
\* returned True; and every item before the loop's position has had its
\* delete_google_doc call, in the order of the items, whatever the calls
\* before it returned.
C26_RemovalOnlyAfterDeletion ==
    /\ \A k \in 1..Len(cl_calls) :
          cl_calls[k].op = "remove_attachment_from_event" =>
              /\ k > 1
              /\ cl_calls[k - 1].op = "delete_google_doc"
              /\ cl_calls[k - 1].result
              /\ cl_calls[k - 1].event_id = cl_calls[k].event_id
              /\ cl_calls[k - 1].title = cl_calls[k].title
    /\ \A k \in DeleteCallPlaces :
          /\ cl_calls[k].status = "not_found" => cl_calls[k].result
          /\ cl_calls[k].status = "deleted" => cl_calls[k].result
          /\ cl_calls[k].status = "failed" => ~cl_calls[k].result
          /\ cl_calls[k].result =>
                /\ k < Len(cl_calls)
                /\ cl_calls[k + 1].op = "remove_attachment_from_event"
    /\ cl_success_count
          = Cardinality({ k \in DeleteCallPlaces :
                            /\ cl_calls[k].result
                            /\ cl_calls[k + 1].result })
    /\ cl_pc \in { "deleting", "done" } /\ cl_idx > 0 =>
          /\ Cardinality(DeleteCallPlaces) = cl_idx - 1
          /\ \A n \in 1..(cl_idx - 1) :
                \E k \in DeleteCallPlaces :
                    /\ SameItem(cl_calls[k], cl_items[n])
                    /\ Cardinality({ j \in DeleteCallPlaces : j <= k }) = n
    /\ cl_pc = "done" /\ cl_idx > 0 => cl_idx = Len(cl_items) + 1

\* C26 witness: the loop is over three items; the file of the first was
\* deleted but its attachment could not be removed, the delete of the second
\* failed and no removal was tried for it, the file of the third (the file of
\* the first, attached to another event) was already gone (404) and its
\* attachment was removed: one item is counted
C26_Witness ==
    /\ cl_pc = "done"
    /\ Len(cl_items) = 3
    /\ Len(cl_calls) = 5
    /\ cl_calls[1].op = "delete_google_doc" /\ cl_calls[1].status = "deleted"
    /\ cl_calls[2].op = "remove_attachment_from_event" /\ ~cl_calls[2].result
    /\ cl_calls[3].op = "delete_google_doc" /\ ~cl_calls[3].result
    /\ cl_calls[4].op = "delete_google_doc" /\ cl_calls[4].status = "not_found"
    /\ cl_calls[4].file_id = cl_calls[1].file_id
    /\ cl_calls[5].op = "remove_attachment_from_event" /\ cl_calls[5].result
    /\ cl_success_count = 1

\* C27: whenever _match_by_ai has handed a recording to match_meeting_to_event
\* and the completion request was sent, the list of candidate events it was
\* sent with held at least one event.
C27_AINeverAskedWithoutCandidates ==
    (ai_last.made /\ ai_last.called) => ai_last.candidates # <<>>

\* how many times x occurs in the sequence s
Occurrences(x, s) == Cardinality({ k \in 1..Len(s) : s[k] = x })

\* every input event is once in `pairs` (as the event of a pair) or once in
\* event_pool and not both, every input recording is once in `pairs` or once
\* in meeting_pool, and every pair is an input event with an input recording
Conserved(pairs, event_pool, meeting_pool) ==
    /\ \A e \in Range(events) :
          Occurrences(e, [k \in 1..Len(pairs) |-> pairs[k][1]])
              + Occurrences(e, event_pool) = 1
    /\ \A m \in Range(meetings) :
          Occurrences(m, [k \in 1..Len(pairs) |-> pairs[k][2]])
              + Occurrences(m, meeting_pool) = 1
    /\ \A k \in 1..Len(pairs) :
          pairs[k][1] \in Range(events) /\ pairs[k][2] \in Range(meetings)
    /\ Range(event_pool) \subseteq Range(events)
    /\ Range(meeting_pool) \subseteq Range(meetings)

\* C28: after stage 1, after stage 2 (or the skip of both under force_ai) and
\* after stage 3 of match_events_and_meetings, every input event is in exactly
\* one of all_matches and unmatched_events and every input recording in
\* exactly one of all_matches and unmatched_meetings, each once; inside stage 3
\* the same holds with the pairs made so far added and the recordings not yet
\* visited counted as unmatched; every pair is an input event with an input
\* recording.
C28_StagesConserveItems ==
    /\ pc \in { "stage2", "stage3_gate", "matched" } =>
          Conserved(all_matches, unmatched_events, unmatched_meetings)
    /\ pc = "stage3" =>
          Conserved(all_matches \o ai_matches, unmatched_events,
                    still_unmatched_meetings
                        \o SubSeq(unmatched_meetings, ai_idx, Len(unmatched_meetings)))

\* C28 witness: the matching is over for two events and two recordings;
\* stage 2 made one pair, stage 3 the other, and both pools are empty
C28_Witness ==
    /\ pc = "matched"
    /\ Len(events) = 2 /\ Len(meetings) = 2
    /\ Len(stage2_matches) = 1
    /\ Len(ai_matches) = 1
    /\ Len(all_matches) = 2
    /\ unmatched_events = <<>>
    /\ unmatched_meetings = <<>>

\* the document is an attachment of one of the events in the calendar
AttachedSomewhere(doc_id) ==
    \E i \in 1..Len(mn_stored) :
        \E att \in Range(mn_stored[i]) : FileIdOf(att.fileUrl) = doc_id

\* C29: when a run of main.main is over, every document it created in the
\* document store is an attachment of a calendar event.
C29_NoDocumentLeftUnattached ==
    mn_pc = "done" => \A d \in Range(mn_docs) : AttachedSomewhere(d.id)

\* this run was confirmed, listed the calendar's events, and has ended with
\* every item handled and no call that returned False
CleanRunCompleted ==
    /\ cl_pc = "done"
    /\ ~cl_args.dry_run
    /\ Len(cl_events) = Len(cl_calendar)
    /\ cl_items # <<>> => /\ Confirmed(cl_confirm)
                          /\ cl_idx = Len(cl_items) + 1
    /\ \A k \in 1..Len(cl_calls) : cl_calls[k].result

\* the items whose file an earlier run deleted (or found deleted) and whose
\* attachment that run failed to remove
LeftAttached ==
    { c \in UNION { Range(cl_prev[n].calls) : n \in 1..Len(cl_prev) } :
        c.op = "remove_attachment_from_event" /\ ~c.result }

\* the listed event still bears an attachment with the title of the call
StillListed(c) ==
    \E i \in 1..Len(cl_events) :
        /\ cl_events[i].id = c.event_id
        /\ \E att \in Range(cl_events[i].attachments) : att.title = c.title

\* a later run that lists the events, with the same prefix, selects again
\* each attachment an earlier run left attached after deleting its file (and
\* no run in between removed)
ReselectedAfterFailedRemoval ==
    ( /\ cl_pc \in { "confirm", "deleting", "done" }
      /\ Len(cl_events) = Len(cl_calendar) ) =>
        \A c \in LeftAttached :
            ( /\ StillListed(c)
              /\ \E n \in 1..Len(cl_prev) :
                    /\ c \in Range(cl_prev[n].calls)
                    /\ cl_prev[n].args.prefix = cl_args.prefix )
                => \E k \in 1..Len(cl_items) : SameItem(c, cl_items[k])

\* the delete of a file an earlier run left attached does not find the file
\* (unless the call itself fails), returns True, and the removal follows it
DeletedDocTakenAsDeleted ==
    \A k \in DeleteCallPlaces :
        (\E c \in LeftAttached : c.file_id = cl_calls[k].file_id) =>
            /\ cl_calls[k].status \in { "not_found", "failed" }
            /\ cl_calls[k].status = "not_found" =>
                  /\ cl_calls[k].result
                  /\ k < Len(cl_calls)
                  /\ cl_calls[k + 1].op = "remove_attachment_from_event"
                  /\ cl_calls[k + 1].status \in { "removed", "absent", "failed" }

\* the attachments now on the calendar's events whose title starts with the prefix
PrefixedAttachmentsNow ==
    UNION { { att \in Range(cl_calendar[i].attachments) :
                TitleSelected(att.title, cl_args.prefix) } :
            i \in 1..Len(cl_calendar) }

\* C30, as amended: a later run with the same prefix selects again each
\* attachment whose file an earlier run deleted without removing the
\* attachment, takes the 404 of its delete as a deletion and goes on to the
\* removal; and when a confirmed run that listed the events has ended without
\* a failed call, no attachment whose title starts with the prefix and whose
\* URL holds a '/d/<file id>' part is left on the events.
C30_RerunRemovesWhatIsSelectable ==
    /\ ReselectedAfterFailedRemoval
    /\ DeletedDocTakenAsDeleted
    /\ CleanRunCompleted =>
          \A att \in PrefixedAttachmentsNow : FileIdOf(att.fileUrl) = <<>>

\* C30 witness: the first run deleted a file and failed to remove its
\* attachment; the second run, with the same prefix, selected the attachment
\* again, got a 404 for the file, removed the attachment and ended without a
\* failed call; no attachment with the prefix is left
C30_Witness ==
    /\ Len(cl_prev) = 1
    /\ cl_prev[1].args.prefix = cl_args.prefix
    /\ LeftAttached # {}
    /\ CleanRunCompleted
    /\ \E k \in DeleteCallPlaces :
          /\ \E c \in LeftAttached : SameItem(cl_calls[k], [event_id |-> c.event_id,
                                                            attachment_title |-> c.title,
                                                            file_id |-> c.file_id])
          /\ cl_calls[k].status = "not_found"
          /\ cl_calls[k + 1].status = "removed"
    /\ PrefixedAttachmentsNow = {}

\* C30 as stated: ... and once a run has ended without a failed step, no
\* attachment with the prefix remains on the events in the window.
C30_NoPrefixedAttachmentRemains ==
    /\ ReselectedAfterFailedRemoval
    /\ DeletedDocTakenAsDeleted
    /\ CleanRunCompleted => PrefixedAttachmentsNow = {}
====
